---- MODULE Spec2Model ----
(***************************************************************************)
(* A model of scripts/png_tools.py: the PNG reader and writer and the      *)
(* border flood fill that turns background pixels transparent.             *)
(*                                                                         *)
(* Python byte strings and lists are sequences; a 0-based Python index i   *)
(* is position i + 1 of the sequence.  An Image is a record               *)
(* [width, height, rgba].                                                  *)
(***************************************************************************)
EXTENDS Integers, Sequences, FiniteSets, TLC

VARIABLES
    pc,               \* position in the call being modelled
    img,              \* the argument image (PngImage, frozen)
    tolerance,        \* argument of background_to_alpha_floodfill
    max_seed_colors,  \* argument of background_to_alpha_floodfill
    rgba,             \* local bytearray, the working copy (line 234)
    border_colors,    \* local list, the border samples (line 236)
    seeds,            \* local list of seed colours (line 238)
    visited,          \* local bytearray(w * h) (line 247)
    qx, qy,           \* the worklist, two parallel lists (lines 248-249)
    x, y,             \* loop variables of lines 260-269
    rgba_ref,         \* which object rgba names: "img.rgba" or "new"
    result,           \* the returned image, NoImage before the return
    result_ref,       \* which object was returned: "img" or "new"
    error,            \* the exception that ended the call, "" when none
    pushed,           \* history: pixel indices appended to the worklist, in order
    evaluated,        \* history: pixel indices popped and tested, in order
    cleared,          \* history: pixel indices whose alpha line 276 set to 0
    run,              \* 1 in the first call on the arguments, 2 in the second
    first,            \* what the first call produced, NoRun until a second starts
    file,             \* the bytes write_png_rgba wrote, <<>> before
    decoded,          \* what read_png returned or raised, NotRead before
    layout,           \* the chunks the file read is made of (see FileOf)
    other_layout,     \* the chunks of the second file of a comparison
    first_read,       \* what read_png gave on the first file, NotRead before
    unfiltered,       \* the scanline bytes a stream was made from by filtering, <<>> if none
    r_ihdr,           \* read_png local ihdr (line 116), NoIhdr for None
    r_idat,           \* read_png local idat_parts, joined (lines 117, 147)
    r_fields,         \* read_png locals unpacked at line 129, as a record
    r_bpp,            \* read_png local bpp (lines 140-143)
    r_raw,            \* read_png local raw (line 147), argument of line 148
    r_out,            \* _unfilter_scanlines local out (line 82)
    r_y               \* _unfilter_scanlines loop variable y (line 83)

args    == <<img, tolerance, max_seed_colors>>
locals  == <<rgba, rgba_ref, border_colors, seeds, visited, qx, qy, x, y>>
outcome == <<result, result_ref, error>>
history == <<pushed, evaluated, cleared>>
twice   == <<run, first>>
reader  == <<r_ihdr, r_idat, r_fields, r_bpp, r_raw, r_out, r_y>>
pair    == <<layout, other_layout, first_read, unfiltered>>
codec   == <<file, decoded, reader, pair>>

vars == <<pc, args, locals, outcome, history, twice, codec>>

----------------------------------------------------------------------------
(* Bounds of the model *)

\* small images: width * height <= MaxPixels, width and height <= MaxSide
MaxPixels == 9
MaxSide == 4
\* wide images: one row of 16 * k + 1 pixels, k in 1..WideBlocks
WideBlocks == 2
\* max_seed_colors ranges over -1..MaxSeedColors
MaxSeedColors == 2
\* images written and read back: width * height <= CodecPixels, sides <= MaxSide
CodecPixels == 4
OrderChoices == 3
FairPixels == 6
SampleBlocks == 2
\* files read: at most MaxChunks chunks before the variations
MaxChunks == 4
\* scanline streams: width and height <= StreamSide
StreamSide == 2

\* the sampling stride passed at line 236
SampleStep == 16

NoImage == [width |-> -1, height |-> -1, rgba |-> <<>>]
NoRun   == [result |-> NoImage, seeds |-> <<>>, cleared |-> {}]
NotRead == [error |-> "", detail |-> <<>>, image |-> NoImage]
\* a file as its parts: the bytes before the first chunk, the chunks
\* [length, type, data, crc], and the bytes after the last chunk
NoFile == [prefix |-> <<>>, chunks |-> <<>>, tail |-> <<>>]
\* there is no second file to compare with
NoOther == [prefix |-> <<>>, chunks |-> <<>>, tail |-> <<-1>>]
\* ihdr = None, line 116
NoIhdr == <<-1>>
\* the locals of line 129 before they are assigned
NoFields == [width |-> -1, height |-> -1, bit_depth |-> -1, color_type |-> -1,
             comp |-> -1, filt |-> -1, interlace |-> -1]

----------------------------------------------------------------------------
(* Python sequence helpers *)

Min(a, b) == IF a <= b THEN a ELSE b
Max(a, b) == IF a >= b THEN a ELSE b

\* s[lo:hi] for 0 <= lo, clamped to the length as Python slices are
Slice(s, lo, hi) == SubSeq(s, lo + 1, Min(hi, Len(s)))

\* whether s[i] raises IndexError
IndexFails(s, i) == i >= Len(s) \/ i < -Len(s)

\* s[i] with Python's negative indices; only used where ~IndexFails(s, i)
PyIndex(s, i) == IF i >= 0 THEN s[i + 1] ELSE s[Len(s) + i + 1]

\* range(0, n, step) as a sequence
RangeStep(n, step) ==
    [k \in 1..(IF n <= 0 THEN 0 ELSE (n + step - 1) \div step) |-> (k - 1) * step]

RECURSIVE Flatten(_)
Flatten(ss) == IF ss = <<>> THEN <<>> ELSE Head(ss) \o Flatten(Tail(ss))

----------------------------------------------------------------------------
(* _color_dist_sq, lines 199-200 *)

_color_dist_sq(a, b) ==
    (a[1] - b[1]) * (a[1] - b[1]) + (a[2] - b[2]) * (a[2] - b[2])
        + (a[3] - b[3]) * (a[3] - b[3])

----------------------------------------------------------------------------
(* _sample_border_colors, lines 203-219 *)

\* offset of pixel (px, py) in the buffer, line 209
PixelOffset(w, px, py) == (py * w + px) * 4

\* get_rgb raises IndexError when one of its three reads does
GetRgbFails(image, px, py) ==
    LET i == PixelOffset(image.width, px, py)
    IN  \E k \in 0..2 : IndexFails(image.rgba, i + k)

get_rgb(image, px, py) ==
    LET i == PixelOffset(image.width, px, py)
    IN  <<PyIndex(image.rgba, i), PyIndex(image.rgba, i + 1),
          PyIndex(image.rgba, i + 2)>>

\* mutant of SamplePositions: an edge that is the same row or column as
\* the one before it is not read again
SamplePositionsOnce(w, h, step) ==
    LET xs == RangeStep(w, step)
        ys == RangeStep(h, step)
    IN  Flatten([k \in 1..Len(xs) |-> IF h = 1 THEN << <<xs[k], 0>> >>
                                      ELSE << <<xs[k], 0>>, <<xs[k], h - 1>> >>])
        \o Flatten([k \in 1..Len(ys) |-> IF w = 1 THEN << <<0, ys[k]>> >>
                                         ELSE << <<0, ys[k]>>, <<w - 1, ys[k]>> >>])

\* the (x, y) positions read, in the order the two loops read them
SamplePositions(w, h, step) ==
    LET xs == RangeStep(w, step)
        ys == RangeStep(h, step)
    IN  Flatten([k \in 1..Len(xs) |-> << <<xs[k], 0>>, <<xs[k], h - 1>> >>])
        \o Flatten([k \in 1..Len(ys) |-> << <<0, ys[k]>>, <<w - 1, ys[k]>> >>])

SampleFails(image, step) ==
    LET ps == SamplePositions(image.width, image.height, step)
    IN  \E k \in 1..Len(ps) : GetRgbFails(image, ps[k][1], ps[k][2])

_sample_border_colors(image, step) ==
    LET ps == SamplePositions(image.width, image.height, step)
    IN  [k \in 1..Len(ps) |-> get_rgb(image, ps[k][1], ps[k][2])]

----------------------------------------------------------------------------
(* Counter(border_colors).most_common(n), line 237 *)

CountOf(c, colors) == Cardinality({k \in 1..Len(colors) : colors[k] = c})

\* the keys of Counter(colors): distinct colours in order of first appearance
RECURSIVE CounterKeys(_)
CounterKeys(colors) ==
    IF colors = <<>> THEN <<>>
    ELSE LET rest == CounterKeys(SubSeq(colors, 1, Len(colors) - 1))
             last == colors[Len(colors)]
         IN  IF \E k \in 1..Len(rest) : rest[k] = last THEN rest
             ELSE Append(rest, last)

\* mutant of FirstMost: among equal counts the last key wins
LastMost(keys, colors) ==
    CHOOSE k \in 1..Len(keys) :
        /\ \A j \in 1..Len(keys) : CountOf(keys[j], colors) <= CountOf(keys[k], colors)
        /\ \A j \in (k + 1)..Len(keys) : CountOf(keys[j], colors) < CountOf(keys[k], colors)

\* position in keys of the entry a descending stable sort puts first
FirstMost(keys, colors) ==
    CHOOSE k \in 1..Len(keys) :
        /\ \A j \in 1..Len(keys) : CountOf(keys[j], colors) <= CountOf(keys[k], colors)
        /\ \A j \in 1..(k - 1) : CountOf(keys[j], colors) < CountOf(keys[k], colors)

Without(s, k) == SubSeq(s, 1, k - 1) \o SubSeq(s, k + 1, Len(s))

\* sorted(items, key = count, reverse = True), a stable sort
RECURSIVE SortedByCount(_, _)
SortedByCount(keys, colors) ==
    IF keys = <<>> THEN <<>>
    ELSE LET k == FirstMost(keys, colors)
         IN  <<keys[k]>> \o SortedByCount(Without(keys, k), colors)

\* heapq.nlargest(n, ...) keeps the first n of the sorted list, none for n <= 0
most_common(keys, colors, n) ==
    LET sorted == SortedByCount(keys, colors)
    IN  IF n <= 0 THEN <<>> ELSE SubSeq(sorted, 1, Min(n, Len(sorted)))

----------------------------------------------------------------------------
(* is_bg, lines 242-245 *)

\* mutant of is_bg: the boundary is exclusive
is_bg_exclusive(rgb, seedList, tol) ==
    \E k \in 1..Len(seedList) : _color_dist_sq(rgb, seedList[k]) < tol * tol

is_bg(rgb, seedList, tol) ==
    \E k \in 1..Len(seedList) : _color_dist_sq(rgb, seedList[k]) <= tol * tol

----------------------------------------------------------------------------
(* push, lines 251-257: the worklist and bitmap after push(px, py) *)

\* mutant of push: the visited bitmap is written but not consulted
push_unchecked(w, st, px, py) ==
    LET idx == py * w + px
    IN  [visited |-> [st.visited EXCEPT ![idx + 1] = 1],
         qx      |-> Append(st.qx, px),
         qy      |-> Append(st.qy, py),
         pushed  |-> Append(st.pushed, idx)]

\* mutant of push: a worklist of three entries takes no more
push_capped(w, st, px, py) ==
    LET idx == py * w + px
    IN  IF st.visited[idx + 1] # 0 THEN st
        ELSE IF Len(st.qx) >= 3
             THEN [visited |-> [st.visited EXCEPT ![idx + 1] = 1],
                   qx      |-> st.qx,
                   qy      |-> st.qy,
                   pushed  |-> st.pushed]
             ELSE [visited |-> [st.visited EXCEPT ![idx + 1] = 1],
                   qx      |-> Append(st.qx, px),
                   qy      |-> Append(st.qy, py),
                   pushed  |-> Append(st.pushed, idx)]

\* the worklist after push(px, py), lines 251-257
push(w, st, px, py) ==
    LET idx == py * w + px
    IN  IF st.visited[idx + 1] # 0 THEN st
        ELSE [visited |-> [st.visited EXCEPT ![idx + 1] = 1],
              qx      |-> Append(st.qx, px),
              qy      |-> Append(st.qy, py),
              pushed  |-> Append(st.pushed, idx)]

Worklist == [visited |-> visited, qx |-> qx, qy |-> qy, pushed |-> pushed]

SetWorklist(st) ==
    /\ visited' = st.visited
    /\ qx' = st.qx
    /\ qy' = st.qy
    /\ pushed' = st.pushed

----------------------------------------------------------------------------
(* Byte strings: struct.pack / struct.unpack, zlib.crc32, zlib.compress,     *)
(* zlib.decompress                                                           *)

\* struct.pack(">I", n) for 0 <= n < 2^31
PackU32(n) == <<n \div 16777216, (n \div 65536) % 256, (n \div 256) % 256, n % 256>>

\* struct.unpack(">I", b)[0]
UnpackU32(b) == ((b[1] * 256 + b[2]) * 256 + b[3]) * 256 + b[4]

\* bitwise exclusive or of two bytes
RECURSIVE XorBits(_, _, _)
XorBits(a, b, n) ==
    IF n = 0 THEN 0
    ELSE ((a + b) % 2) + 2 * XorBits(a \div 2, b \div 2, n - 1)

XorByte(a, b) == XorBits(a, b, 8)

Xor4(a, b) == [k \in 1..4 |-> XorByte(a[k], b[k])]

\* the reflected CRC-32 polynomial 0xEDB88320, most significant byte first
CrcPolynomial == <<237, 184, 131, 32>>

\* one shift of the 32-bit register c (four bytes, most significant first)
CrcShift(c) ==
    LET shifted == <<c[1] \div 2,
                     (c[1] % 2) * 128 + c[2] \div 2,
                     (c[2] % 2) * 128 + c[3] \div 2,
                     (c[3] % 2) * 128 + c[4] \div 2>>
    IN  IF c[4] % 2 = 1 THEN Xor4(shifted, CrcPolynomial) ELSE shifted

RECURSIVE CrcShifts(_, _)
CrcShifts(c, n) == IF n = 0 THEN c ELSE CrcShifts(CrcShift(c), n - 1)

\* the register after bytes k.. of data; c is a register of four bytes
RECURSIVE CrcUpdate(_, _, _)
CrcUpdate(c, data, k) ==
    IF Len(c) # 4 \/ k > Len(data) THEN c
    ELSE CrcUpdate(CrcShifts([c EXCEPT ![4] = XorByte(c[4], data[k])], 8), data, k + 1)

\* struct.pack(">I", zlib.crc32(data) & 0xFFFFFFFF), lines 183-184
Crc32Bytes(data) ==
    Xor4(CrcUpdate(<<255, 255, 255, 255>>, data, 1), <<255, 255, 255, 255>>)

\* the Adler-32 checksum that ends a zlib stream, most significant byte first
RECURSIVE AdlerSums(_, _, _, _)
AdlerSums(data, k, a, b) ==
    IF k > Len(data) THEN <<a, b>>
    ELSE LET a2 == (a + data[k]) % 65521
         IN  AdlerSums(data, k + 1, a2, (b + a2) % 65521)

Adler32Bytes(data) ==
    LET ab == AdlerSums(data, 1, 1, 0)
    IN  <<ab[2] \div 256, ab[2] % 256, ab[1] \div 256, ab[1] % 256>>

\* zlib.compress(data, level = 6), line 187.  Deflate is a lossless pair; the
\* stream modelled is the zlib header 78 9C, the data in one stored block
\* (01, LEN, ~LEN, little-endian) and the Adler-32 of the data.
zlib_compress(data) ==
    LET n == Len(data)
    IN  <<120, 156, 1, n % 256, n \div 256, 255 - (n % 256), 255 - (n \div 256)>>
            \o data \o Adler32Bytes(data)

\* zlib.decompress(stream), line 147: [ok, data]; a stream that is not a
\* complete zlib stream of one stored block raises zlib.error
zlib_decompress(stream) ==
    LET bad == [ok |-> FALSE, data |-> <<>>]
    IN  IF Len(stream) < 7 THEN bad
        ELSE LET n == stream[4] + 256 * stream[5]
             IN  IF \/ stream[1] % 16 # 8
                    \/ (stream[1] * 256 + stream[2]) % 31 # 0
                    \/ stream[3] # 1
                    \/ stream[6] # 255 - stream[4]
                    \/ stream[7] # 255 - stream[5]
                    \/ Len(stream) < 7 + n + 4
                 THEN bad
                 ELSE LET data == SubSeq(stream, 8, 7 + n)
                      IN  IF SubSeq(stream, 8 + n, 11 + n) # Adler32Bytes(data) THEN bad
                          ELSE [ok |-> TRUE, data |-> data]

\* mutant of SliceAssign: src is put in at lo and nothing is taken out
SliceInsert(out, lo, hi, src) ==
    SubSeq(out, 1, Min(lo, Len(out))) \o src \o SubSeq(out, Min(lo, Len(out)) + 1, Len(out))

\* out[lo:hi] = src on a bytearray, 0 <= lo <= hi: the slice is replaced
SliceAssign(out, lo, hi, src) ==
    SubSeq(out, 1, Min(lo, Len(out))) \o src \o SubSeq(out, Min(hi, Len(out)) + 1, Len(out))

\* bytearray(n), lines 82 and 168: n zero bytes, as a sequence
Zeros(n) == SubSeq([k \in 1..n |-> 0], 1, n)

----------------------------------------------------------------------------
(* _read_chunks, lines 36-53 *)

PNG_SIGNATURE == <<137, 80, 78, 71, 13, 10, 26, 10>>
IHDR == <<73, 72, 68, 82>>
IDAT == <<73, 68, 65, 84>>
IEND == <<73, 69, 78, 68>>

\* mutant of StartsWithSignature: the last byte of the signature is not compared
StartsWithSignature7(png) ==
    Len(png) >= Len(PNG_SIGNATURE) /\ SubSeq(png, 1, 7) = SubSeq(PNG_SIGNATURE, 1, 7)

\* png_bytes.startswith(PNG_SIGNATURE), line 38
StartsWithSignature(png) ==
    Len(png) >= Len(PNG_SIGNATURE) /\ SubSeq(png, 1, Len(PNG_SIGNATURE)) = PNG_SIGNATURE

\* mutant of ChunksFrom: a chunk whose 4 checksum bytes are not the CRC-32 of
\* its type and payload ends the walk
RECURSIVE ChunksFromChecked(_, _)
ChunksFromChecked(png, i) ==
    IF ~(i < Len(png)) \/ i + 8 > Len(png) THEN <<>>
    ELSE LET length     == UnpackU32(Slice(png, i, i + 4))
             chunk_type == Slice(png, i + 4, i + 8)
             data       == Slice(png, i + 8, i + 8 + length)
             crc        == Slice(png, i + 8 + length, i + 8 + length + 4)
             here       == <<[type |-> chunk_type, data |-> data]>>
         IN  IF crc # Crc32Bytes(chunk_type \o data) THEN <<>>
             ELSE IF chunk_type = IEND THEN here
             ELSE here \o ChunksFromChecked(png, i + 8 + length + 4)

\* the (type, data) pairs the loop of lines 41-53 yields from offset i on
RECURSIVE ChunksFrom(_, _)
ChunksFrom(png, i) ==
    IF ~(i < Len(png)) \/ i + 8 > Len(png) THEN <<>>
    ELSE LET length     == UnpackU32(Slice(png, i, i + 4))
             chunk_type == Slice(png, i + 4, i + 8)
             data       == Slice(png, i + 8, i + 8 + length)
             here       == <<[type |-> chunk_type, data |-> data]>>
         IN  IF chunk_type = IEND THEN here
             ELSE here \o ChunksFrom(png, i + 8 + length + 4)

_read_chunks(png) == ChunksFrom(png, Len(PNG_SIGNATURE))

----------------------------------------------------------------------------
(* _paeth, lines 56-65 *)

Abs(n) == IF n < 0 THEN -n ELSE n

_paeth(a, b, c) ==
    LET p  == a + b - c
        pa == Abs(p - a)
        pb == Abs(p - b)
        pc2 == Abs(p - c)
    IN  IF pa <= pb /\ pa <= pc2 THEN a
        ELSE IF pb <= pc2 THEN b
        ELSE c

----------------------------------------------------------------------------
(* _unfilter_scanlines, lines 68-109 *)

\* mutant of Unfiltered: the average of line 104 is rounded up
UnfilteredAverageUp(filt, val, left, up, up_left) ==
    CASE filt = 1 -> (val + left) % 256
      [] filt = 2 -> (val + up) % 256
      [] filt = 3 -> (val + ((left + up + 1) \div 2)) % 256
      [] filt = 4 -> (val + _paeth(left, up, up_left)) % 256
      [] OTHER    -> -1

\* the byte lines 99-106 store, -1 when line 108 raises
Unfiltered(filt, val, left, up, up_left) ==
    CASE filt = 1 -> (val + left) % 256
      [] filt = 2 -> (val + up) % 256
      [] filt = 3 -> (val + ((left + up) \div 2)) % 256
      [] filt = 4 -> (val + _paeth(left, up, up_left)) % 256
      [] OTHER    -> -1

\* mutant of UnfilterRow: left is read from the filtered bytes of the row
RECURSIVE UnfilterRowRaw(_, _, _, _, _, _, _, _)
UnfilterRowRaw(out, src, filt, r, col, row_bytes, bpp, dst_off) ==
    IF col >= row_bytes THEN [ok |-> TRUE, out |-> out]
    ELSE LET left    == IF col >= bpp THEN src[col - bpp + 1] ELSE 0
             up      == IF r > 0 THEN out[dst_off - row_bytes + col + 1] ELSE 0
             up_left == IF r > 0 /\ col >= bpp
                        THEN out[dst_off - row_bytes + col - bpp + 1] ELSE 0
             byte    == Unfiltered(filt, src[col + 1], left, up, up_left)
         IN  IF byte < 0 THEN [ok |-> FALSE, out |-> <<filt>>]
             ELSE UnfilterRowRaw([out EXCEPT ![dst_off + col + 1] = byte], src, filt, r,
                                 col + 1, row_bytes, bpp, dst_off)

\* the loop of lines 93-108 on row r from column col on: [ok, out], ok
\* FALSE when line 108 raised
RECURSIVE UnfilterRow(_, _, _, _, _, _, _, _)
UnfilterRow(out, src, filt, r, col, row_bytes, bpp, dst_off) ==
    IF col >= row_bytes THEN [ok |-> TRUE, out |-> out]
    ELSE LET left    == IF col >= bpp THEN out[dst_off + col - bpp + 1] ELSE 0
             up      == IF r > 0 THEN out[dst_off - row_bytes + col + 1] ELSE 0
             up_left == IF r > 0 /\ col >= bpp
                        THEN out[dst_off - row_bytes + col - bpp + 1] ELSE 0
             byte    == Unfiltered(filt, src[col + 1], left, up, up_left)
         IN  IF byte < 0 THEN [ok |-> FALSE, out |-> <<filt>>]
             ELSE UnfilterRow([out EXCEPT ![dst_off + col + 1] = byte], src, filt, r,
                              col + 1, row_bytes, bpp, dst_off)

\* one iteration of the loop of line 83, lines 84-108, on row r: [ok, out]
UnfilterOneRow(out, raw, r, row_bytes, bpp) ==
    LET row_start == r * (1 + row_bytes)
        filt      == raw[row_start + 1]
        src       == Slice(raw, row_start + 1, row_start + 1 + row_bytes)
        dst_off   == r * row_bytes
    IN  IF filt = 0
        THEN [ok  |-> TRUE,
              out |-> SliceAssign(out, dst_off, dst_off + row_bytes, src)]
        ELSE UnfilterRow(out, src, filt, r, 0, row_bytes, bpp, dst_off)

\* the loop of lines 83-108 from row r on: [ok, out]
RECURSIVE UnfilterRows(_, _, _, _, _, _)
UnfilterRows(out, raw, r, height, row_bytes, bpp) ==
    IF r >= height THEN [ok |-> TRUE, out |-> out]
    ELSE IF ~UnfilterOneRow(out, raw, r, row_bytes, bpp).ok
         THEN UnfilterOneRow(out, raw, r, row_bytes, bpp)
         ELSE UnfilterRows(UnfilterOneRow(out, raw, r, row_bytes, bpp).out,
                           raw, r + 1, height, row_bytes, bpp)

\* mutant of TooSmall: a stream of exactly the expected length is rejected
TooSmallOrEqual(got, expected) == got <= expected

\* the test of line 79
TooSmall(got, expected) == got < expected

\* [error, detail, pixels]: detail holds the numbers of the error message
_unfilter_scanlines(raw, width, height, bpp) ==
    LET row_bytes == width * bpp
        expected  == height * (1 + row_bytes)
    IN  IF TooSmall(Len(raw), expected)
        THEN [error  |-> "ValueError: IDAT too small",
              detail |-> [got |-> Len(raw), expected |-> expected],
              pixels |-> <<>>]
        ELSE LET rows == UnfilterRows(Zeros(height * row_bytes), raw, 0, height,
                                      row_bytes, bpp)
             IN  IF ~rows.ok
                 THEN [error  |-> "ValueError: Unsupported PNG filter",
                       detail |-> [filt |-> rows.out[1]],
                       pixels |-> <<>>]
                 ELSE [error |-> "", detail |-> <<>>, pixels |-> rows.out]

----------------------------------------------------------------------------
(* read_png, lines 112-162 *)

\* an exception leaving read_png: its message, the numbers in the message
Raised(message, detail) == [error |-> message, detail |-> detail, image |-> NoImage]

Returned(image) == [error |-> "", detail |-> <<>>, image |-> image]

\* mutant of Collect: an IDAT payload goes in front of the ones before it
RECURSIVE CollectReversed(_, _, _, _)
CollectReversed(chunks, k, ihdr, idat) ==
    IF k > Len(chunks) THEN [ihdr |-> ihdr, idat |-> idat]
    ELSE IF chunks[k].type = IHDR THEN CollectReversed(chunks, k + 1, chunks[k].data, idat)
    ELSE IF chunks[k].type = IDAT
         THEN CollectReversed(chunks, k + 1, ihdr, chunks[k].data \o idat)
    ELSE IF chunks[k].type = IEND THEN [ihdr |-> ihdr, idat |-> idat]
    ELSE CollectReversed(chunks, k + 1, ihdr, idat)

\* mutant of Collect: a chunk of an unknown type ends the loop
RECURSIVE CollectStrict(_, _, _, _)
CollectStrict(chunks, k, ihdr, idat) ==
    IF k > Len(chunks) THEN [ihdr |-> ihdr, idat |-> idat]
    ELSE IF chunks[k].type = IHDR THEN CollectStrict(chunks, k + 1, chunks[k].data, idat)
    ELSE IF chunks[k].type = IDAT
         THEN CollectStrict(chunks, k + 1, ihdr, idat \o chunks[k].data)
    ELSE [ihdr |-> ihdr, idat |-> idat]

\* the loop of lines 118-124: the IHDR payload kept (<<-1>> for None) and the
\* IDAT payloads joined
RECURSIVE Collect(_, _, _, _)
Collect(chunks, k, ihdr, idat) ==
    IF k > Len(chunks) THEN [ihdr |-> ihdr, idat |-> idat]
    ELSE IF chunks[k].type = IHDR THEN Collect(chunks, k + 1, chunks[k].data, idat)
    ELSE IF chunks[k].type = IDAT THEN Collect(chunks, k + 1, ihdr, idat \o chunks[k].data)
    ELSE IF chunks[k].type = IEND THEN [ihdr |-> ihdr, idat |-> idat]
    ELSE Collect(chunks, k + 1, ihdr, idat)

\* mutant of ExpandRgb: the three colour bytes of a pixel in reverse order
ExpandBgr(pixels, count) ==
    [k \in 1..(count * 4) |->
        IF (k - 1) % 4 = 3 THEN 255 ELSE pixels[((k - 1) \div 4) * 3 + (2 - ((k - 1) % 4)) + 1]]

\* lines 150-160
ExpandRgb(pixels, count) ==
    [k \in 1..(count * 4) |->
        IF (k - 1) % 4 = 3 THEN 255 ELSE pixels[((k - 1) \div 4) * 3 + ((k - 1) % 4) + 1]]

\* lines 129-162, from the IHDR payload and the joined IDAT payloads
Decode(ihdr, idat) ==
    IF Len(ihdr) # 13 THEN Raised("struct.error", <<>>)
    ELSE LET width      == UnpackU32(SubSeq(ihdr, 1, 4))
             height     == UnpackU32(SubSeq(ihdr, 5, 8))
             bit_depth  == ihdr[9]
             color_type == ihdr[10]
             comp       == ihdr[11]
             filt       == ihdr[12]
             interlace  == ihdr[13]
         IN  IF comp # 0 \/ filt # 0
             THEN Raised("ValueError: Unsupported PNG compression/filter method", <<>>)
             ELSE IF interlace # 0
             THEN Raised("ValueError: Interlaced PNG not supported", <<>>)
             ELSE IF bit_depth # 8
             THEN Raised("ValueError: Only 8-bit PNG supported", <<>>)
             ELSE IF color_type \notin {2, 6}
             THEN Raised("ValueError: Unsupported PNG color type",
                         [color_type |-> color_type])
             ELSE LET bpp == IF color_type = 2 THEN 3 ELSE 4
                      raw == zlib_decompress(idat)
                  IN  IF ~raw.ok THEN Raised("zlib.error", <<>>)
                      ELSE LET un == _unfilter_scanlines(raw.data, width, height, bpp)
                           IN  IF un.error # "" THEN Raised(un.error, un.detail)
                               ELSE Returned([width  |-> width,
                                              height |-> height,
                                              rgba   |-> IF bpp = 4 THEN un.pixels
                                                         ELSE ExpandRgb(un.pixels,
                                                                        width * height)])

\* read_png on a file holding the bytes png: [error, detail, image]
read_png(png) ==
    IF ~StartsWithSignature(png)
    THEN Raised("ValueError: Not a PNG (bad signature)", <<>>)
    ELSE LET got == Collect(_read_chunks(png), 1, <<-1>>, <<>>)
         IN  IF got.ihdr = <<-1>> THEN Raised("ValueError: PNG missing IHDR", <<>>)
             ELSE Decode(got.ihdr, got.idat)

----------------------------------------------------------------------------
(* _filter_none_rgba and write_png_rgba, lines 165-196 *)

\* mutant of FilterTypeNone: the rows are marked as filtered with Sub
FilterTypeSub == 1

\* the filter-type byte line 170 stores
FilterTypeNone == 0

\* mutant of FilterRows: the row of line 171 starts one scanline stride down
RECURSIVE FilterRowsStride(_, _, _, _, _)
FilterRowsStride(out, buf, r, height, row_bytes) ==
    IF r >= height THEN out
    ELSE LET at    == r * (1 + row_bytes)
             start == r * (1 + row_bytes)
             typed == [out EXCEPT ![at + 1] = FilterTypeNone]
         IN  FilterRowsStride(SliceAssign(typed, at + 1, at + 1 + row_bytes,
                                          Slice(buf, start, start + row_bytes)),
                              buf, r + 1, height, row_bytes)

\* the loop of lines 169-174 from row r on
RECURSIVE FilterRows(_, _, _, _, _)
FilterRows(out, buf, r, height, row_bytes) ==
    IF r >= height THEN out
    ELSE LET at    == r * (1 + row_bytes)
             start == r * row_bytes
             typed == [out EXCEPT ![at + 1] = FilterTypeNone]
         IN  FilterRows(SliceAssign(typed, at + 1, at + 1 + row_bytes,
                                    Slice(buf, start, start + row_bytes)),
                        buf, r + 1, height, row_bytes)

_filter_none_rgba(buf, width, height) ==
    FilterRows(Zeros(height * (1 + width * 4)), buf, 0, height, width * 4)

\* mutant of chunk: the length field counts the checksum too
chunkCountsCrc(ctype, data) ==
    PackU32(Len(data) + 4) \o ctype \o data \o Crc32Bytes(ctype \o data)

\* chunk, lines 182-184
chunk(ctype, data) == PackU32(Len(data)) \o ctype \o data \o Crc32Bytes(ctype \o data)

\* the bytes write_png_rgba writes to the file
write_png_rgba(image) ==
    LET ihdr == PackU32(image.width) \o PackU32(image.height) \o <<8, 6, 0, 0, 0>>
        raw_scanlines == _filter_none_rgba(image.rgba, image.width, image.height)
        compressed    == zlib_compress(raw_scanlines)
    IN  PNG_SIGNATURE \o chunk(IHDR, ihdr) \o chunk(IDAT, compressed) \o chunk(IEND, <<>>)

----------------------------------------------------------------------------
(* Inputs *)

\* pixel values the images are drawn from: squared distances 784 = 28 * 28,
\* 785 and 1 between the three colours, and different alpha bytes
Pixels == { <<10, 20, 30, 255>>, <<38, 20, 30, 200>>, <<38, 21, 30, 0>> }
SmallPixels == { <<38, 20, 30, 200>>, <<38, 21, 30, 255>> }

Tolerances == {1, 28}
SmallTolerances == {0}

ImageOf(w, h, px) == [width |-> w, height |-> h, rgba |-> Flatten(px)]

\* every image of at most MaxPixels pixels over SmallPixels, zero areas included
SmallImages ==
    UNION { { ImageOf(d[1], d[2], px) : px \in [1..(d[1] * d[2]) -> SmallPixels] } :
            d \in { e \in (0..MaxSide) \X (0..MaxSide) : e[1] * e[2] <= MaxPixels } }

\* one row of 16 * k + 1 pixels, the colour constant on each run of 16
WideImages ==
    UNION { { ImageOf(16 * k + 1, 1,
                      [i \in 1..(16 * k + 1) |-> b[((i - 1) \div 16) + 1]]) :
              b \in [1..(k + 1) -> Pixels] } : k \in 1..WideBlocks }

\* the (image, tolerance) pairs the calls are made on
Inputs == (SmallImages \X SmallTolerances) \cup (WideImages \X Tolerances)

----------------------------------------------------------------------------
(* background_to_alpha_floodfill, lines 222-288 *)

\* the locals of read_png and _unfilter_scanlines before a call of read_png
ReaderAtCall ==
    /\ r_ihdr = NoIhdr
    /\ r_idat = <<>>
    /\ r_fields = NoFields
    /\ r_bpp = 0
    /\ r_raw = <<>>
    /\ r_out = <<>>
    /\ r_y = 0

\* no file of known chunks is being read
NoLayout ==
    /\ layout = NoFile
    /\ other_layout = NoOther
    /\ first_read = NotRead
    /\ unfiltered = <<>>

\* the state at the call, before line 233
AtCall ==
    /\ pc = "call"
    /\ rgba = <<>>
    /\ rgba_ref = "none"
    /\ border_colors = <<>>
    /\ seeds = <<>>
    /\ visited = <<>>
    /\ qx = <<>>
    /\ qy = <<>>
    /\ x = 0
    /\ y = 0
    /\ result = NoImage
    /\ result_ref = "none"
    /\ error = ""
    /\ pushed = <<>>
    /\ evaluated = <<>>
    /\ cleared = {}

Init ==
    /\ \E inp \in Inputs : img = inp[1] /\ tolerance = inp[2]
    /\ max_seed_colors \in -1..MaxSeedColors
    /\ AtCall
    /\ run = 1
    /\ first = NoRun
    /\ file = <<>>
    /\ decoded = NotRead
    /\ ReaderAtCall
    /\ NoLayout

\* mutant of BytearrayOf: the working buffer is the argument's buffer itself
BytearrayAlias(ref) == ref

\* bytearray(img.rgba), line 234, is a new object holding a copy
BytearrayOf(ref) == "new"

\* lines 233-236 when a border read is out of range: IndexError leaves the call
SampleRaises ==
    /\ pc = "call"
    /\ SampleFails(img, SampleStep)
    /\ pc' = "raised"
    /\ error' = "IndexError"
    /\ rgba' = img.rgba
    /\ rgba_ref' = BytearrayOf("img.rgba")
    /\ UNCHANGED <<args, border_colors, seeds, visited, qx, qy, x, y,
                   result, result_ref, history, twice, codec>>

\* lines 233-240 when no seed is selected: the argument itself is returned
ReturnInput ==
    /\ pc = "call"
    /\ ~SampleFails(img, SampleStep)
    /\ \E colors \in {_sample_border_colors(img, SampleStep)} :
          \E counter \in {CounterKeys(colors)} :
              \E common \in {most_common(counter, colors, max_seed_colors)} :
                  /\ common = <<>>
                  /\ border_colors' = colors
                  /\ seeds' = common
    /\ rgba' = img.rgba
    /\ rgba_ref' = BytearrayOf("img.rgba")
    /\ result' = img
    /\ result_ref' = "img"
    /\ pc' = "returned"
    /\ UNCHANGED <<args, visited, qx, qy, x, y, error, history, twice, codec>>

\* the orders of the distinct colours a descending sort by count allows when
\* equal counts may come out in any order
SortedOrders(colors) ==
    LET keys == CounterKeys(colors)
        n    == Len(keys)
    IN  { [k \in 1..n |-> keys[f[k]]] :
            f \in { g \in [1..n -> 1..n] :
                      /\ \A i, j \in 1..n : g[i] = g[j] => i = j
                      /\ \A i \in 1..(n - 1) :
                            CountOf(keys[g[i]], colors) >= CountOf(keys[g[i + 1]], colors) } }

\* mutant of Enter: equal counts are ranked in an arbitrary order
EnterUnordered ==
    /\ pc = "call"
    /\ ~SampleFails(img, SampleStep)
    /\ max_seed_colors > 0
    /\ \E colors \in {_sample_border_colors(img, SampleStep)} :
          /\ colors # <<>>
          /\ border_colors' = colors
          /\ \E order \in SortedOrders(colors) :
                 seeds' = SubSeq(order, 1, Min(max_seed_colors, Len(order)))
    /\ rgba' = img.rgba
    /\ rgba_ref' = BytearrayOf("img.rgba")
    /\ visited' = [k \in 1..(img.width * img.height) |-> 0]
    /\ qx' = <<>>
    /\ qy' = <<>>
    /\ x' = 0
    /\ pc' = "seed_rows"
    /\ UNCHANGED <<args, y, outcome, pushed, evaluated, cleared, twice, codec>>

\* lines 233-249 when seeds exist: copy, sample, rank, allocate the bitmap
Enter ==
    /\ pc = "call"
    /\ ~SampleFails(img, SampleStep)
    /\ \E colors \in {_sample_border_colors(img, SampleStep)} :
          \E counter \in {CounterKeys(colors)} :
              \E common \in {most_common(counter, colors, max_seed_colors)} :
                  /\ common # <<>>
                  /\ border_colors' = colors
                  /\ seeds' = common
    /\ rgba' = img.rgba
    /\ rgba_ref' = BytearrayOf("img.rgba")
    /\ visited' = [k \in 1..(img.width * img.height) |-> 0]
    /\ qx' = <<>>
    /\ qy' = <<>>
    /\ x' = 0
    /\ pc' = "seed_rows"
    /\ UNCHANGED <<args, y, outcome, pushed, evaluated, cleared, twice, codec>>

\* mutant of SeedRow: only the sampled columns of the two rows are seeded
SeedRowSampled ==
    /\ pc = "seed_rows"
    /\ x < img.width
    /\ SetWorklist(push(img.width, push(img.width, Worklist, x, 0), x, img.height - 1))
    /\ x' = x + SampleStep
    /\ UNCHANGED <<pc, args, rgba, rgba_ref, border_colors, seeds, y, outcome,
                   evaluated, cleared, twice, codec>>

\* one iteration of the loop of lines 260-262
SeedRow ==
    /\ pc = "seed_rows"
    /\ x < img.width
    /\ SetWorklist(push(img.width, push(img.width, Worklist, x, 0), x, img.height - 1))
    /\ x' = x + 1
    /\ UNCHANGED <<pc, args, rgba, rgba_ref, border_colors, seeds, y, outcome,
                   evaluated, cleared, twice, codec>>

\* range(w) is exhausted: the loop of line 263 starts
SeedRowsDone ==
    /\ pc = "seed_rows"
    /\ x >= img.width
    /\ y' = 0
    /\ pc' = "seed_cols"
    /\ UNCHANGED <<args, rgba, rgba_ref, border_colors, seeds, visited, qx, qy, x,
                   outcome, history, twice, codec>>

\* one iteration of the loop of lines 263-265
SeedCol ==
    /\ pc = "seed_cols"
    /\ y < img.height
    /\ SetWorklist(push(img.width, push(img.width, Worklist, 0, y), img.width - 1, y))
    /\ y' = y + 1
    /\ UNCHANGED <<pc, args, rgba, rgba_ref, border_colors, seeds, x, outcome,
                   evaluated, cleared, twice, codec>>

\* range(h) is exhausted: the loop of line 267 starts
SeedColsDone ==
    /\ pc = "seed_cols"
    /\ y >= img.height
    /\ pc' = "fill"
    /\ UNCHANGED <<args, locals, outcome, history, twice, codec>>

\* mutant of PushNeighbours: the four diagonal neighbours are pushed as well
PushNeighbours8(w, h, st, px, py) ==
    LET s1 == IF px > 0 THEN push(w, st, px - 1, py) ELSE st
        s2 == IF px + 1 < w THEN push(w, s1, px + 1, py) ELSE s1
        s3 == IF py > 0 THEN push(w, s2, px, py - 1) ELSE s2
        s4 == IF py + 1 < h THEN push(w, s3, px, py + 1) ELSE s3
        s5 == IF px > 0 /\ py > 0 THEN push(w, s4, px - 1, py - 1) ELSE s4
        s6 == IF px + 1 < w /\ py > 0 THEN push(w, s5, px + 1, py - 1) ELSE s5
        s7 == IF px > 0 /\ py + 1 < h THEN push(w, s6, px - 1, py + 1) ELSE s6
        s8 == IF px + 1 < w /\ py + 1 < h THEN push(w, s7, px + 1, py + 1) ELSE s7
    IN  s8

\* mutant of PushNeighbours: the accepted pixel is put on the worklist again
PushNeighboursAndSelf(w, h, st, px, py) ==
    LET s1 == IF px > 0 THEN push(w, st, px - 1, py) ELSE st
        s2 == IF px + 1 < w THEN push(w, s1, px + 1, py) ELSE s1
        s3 == IF py > 0 THEN push(w, s2, px, py - 1) ELSE s2
        s4 == IF py + 1 < h THEN push(w, s3, px, py + 1) ELSE s3
    IN  [visited |-> s4.visited,
         qx      |-> Append(s4.qx, px),
         qy      |-> Append(s4.qy, py),
         pushed  |-> Append(s4.pushed, py * w + px)]

\* the pushes of lines 279-286 after pixel (px, py) was accepted
PushNeighbours(w, h, st, px, py) ==
    LET s1 == IF px > 0 THEN push(w, st, px - 1, py) ELSE st
        s2 == IF px + 1 < w THEN push(w, s1, px + 1, py) ELSE s1
        s3 == IF py > 0 THEN push(w, s2, px, py - 1) ELSE s2
        s4 == IF py + 1 < h THEN push(w, s3, px, py + 1) ELSE s3
    IN  s4

\* which worklist entry lines 268-269 take: list.pop() takes the last
PopIndex(q) == Len(q)

\* mutant of MakeTransparent: the byte before the alpha byte is written
MakeTransparentOffByOne(buf, i) == [buf EXCEPT ![i + 2 + 1] = 0]

\* mutant of MakeTransparent: the red byte of the pixel is written too
MakeTransparentRecolour(buf, i) == [buf EXCEPT ![i + 3 + 1] = 0, ![i + 1] = 38]

\* the buffer after line 276 on the pixel at offset i
MakeTransparent(buf, i) == [buf EXCEPT ![i + 3 + 1] = 0]

\* one iteration of the loop of lines 267-286 that takes worklist entry k
PopAt(k) ==
    /\ pc = "fill"
    /\ qx # <<>>
    /\ LET px  == qx[k]
           py  == qy[k]
           i   == (py * img.width + px) * 4
           rgb == <<rgba[i + 1], rgba[i + 2], rgba[i + 3]>>
           st  == [Worklist EXCEPT !.qx = Without(qx, k), !.qy = Without(qy, k)]
       IN  /\ x' = px
           /\ y' = py
           /\ evaluated' = Append(evaluated, py * img.width + px)
           /\ IF ~is_bg(rgb, seeds, tolerance)
              THEN /\ SetWorklist(st)
                   /\ UNCHANGED <<rgba, cleared, img>>
              ELSE /\ rgba' = MakeTransparent(rgba, i)
                   \* a write through rgba reaches img.rgba only if both name one object
                   /\ img' = IF rgba_ref = "img.rgba"
                             THEN [img EXCEPT !.rgba = MakeTransparent(rgba, i)]
                             ELSE img
                   /\ cleared' = cleared \cup {py * img.width + px}
                   /\ SetWorklist(PushNeighbours(img.width, img.height, st, px, py))
    /\ UNCHANGED <<pc, tolerance, max_seed_colors, rgba_ref, border_colors, seeds,
                   outcome, twice, codec>>

\* one iteration of the loop of lines 267-286
Pop == PopAt(PopIndex(qx))

\* line 288: a new PngImage over a new bytes object
Return ==
    /\ pc = "fill"
    /\ qx = <<>>
    /\ result' = [width |-> img.width, height |-> img.height, rgba |-> rgba]
    /\ result_ref' = "new"
    /\ pc' = "returned"
    /\ UNCHANGED <<args, locals, error, history, twice, codec>>

Next ==
    \/ SampleRaises
    \/ ReturnInput
    \/ Enter
    \/ SeedRow
    \/ SeedRowsDone
    \/ SeedCol
    \/ SeedColsDone
    \/ Pop
    \/ Return

Spec == Init /\ [][Next]_vars

\* images of 3 x 3 pixels of one colour but for none of the others, for the
\* pixels above and left of the centre, or for these and the centre; and
\* images of at most one pixel
OrderImages ==
    { ImageOf(3, 3, [i \in 1..9 |-> IF i \in other THEN <<38, 21, 30, 255>>
                                     ELSE <<38, 20, 30, 200>>]) :
        other \in { {}, {2, 4}, {2, 4, 5} } }
    \cup { im \in SmallImages : im.width * im.height <= 1 }

\* calls on the images of at most FairPixels pixels and on these 3 x 3 images
InitFair ==
    /\ img \in { im \in SmallImages : im.width * im.height <= FairPixels } \cup OrderImages
    /\ tolerance = 0
    /\ max_seed_colors \in -1..MaxSeedColors
    /\ AtCall
    /\ run = 1
    /\ first = NoRun
    /\ file = <<>>
    /\ decoded = NotRead
    /\ ReaderAtCall
    /\ NoLayout

\* the call runs on: the interpreter takes the next step whenever there is one
SpecFair == InitFair /\ [][Next]_vars /\ WF_vars(Next)

----------------------------------------------------------------------------
(* write_png_rgba followed by read_png on the file it wrote *)

\* pixel values of the images written: the extreme bytes, an opaque and a
\* half transparent colour, and a pixel as the fill leaves it (alpha 0)
CodecPixelValues == { <<0, 0, 0, 0>>, <<255, 255, 255, 255>>, <<38, 21, 30, 200>> }

CodecImages ==
    UNION { { ImageOf(d[1], d[2], px) : px \in [1..(d[1] * d[2]) -> CodecPixelValues] } :
            d \in { e \in (0..MaxSide) \X (0..MaxSide) : e[1] * e[2] <= CodecPixels } }

InitCodec ==
    /\ img \in CodecImages
    /\ pc = "write"
    /\ file = <<>>
    /\ decoded = NotRead
    /\ ReaderAtCall
    /\ NoLayout
    /\ tolerance = 28
    /\ max_seed_colors = 2
    /\ rgba = <<>>
    /\ rgba_ref = "none"
    /\ border_colors = <<>>
    /\ seeds = <<>>
    /\ visited = <<>>
    /\ qx = <<>>
    /\ qy = <<>>
    /\ x = 0
    /\ y = 0
    /\ result = NoImage
    /\ result_ref = "none"
    /\ error = ""
    /\ pushed = <<>>
    /\ evaluated = <<>>
    /\ cleared = {}
    /\ run = 1
    /\ first = NoRun

\* write_png_rgba(path, img), lines 178-196
WritePng ==
    /\ pc = "write"
    /\ file' = write_png_rgba(img)
    /\ pc' = "read"
    /\ UNCHANGED <<args, locals, outcome, history, twice, decoded, reader, pair>>

\* read_png(path), lines 112-162, on the file written
ReadPng ==
    /\ pc = "read"
    /\ decoded' = read_png(file)
    /\ pc' = "read_done"
    /\ UNCHANGED <<args, locals, outcome, history, twice, file, reader, pair>>

NextCodec ==
    \/ WritePng
    \/ ReadPng

SpecCodec == InitCodec /\ [][NextCodec]_vars

----------------------------------------------------------------------------
(* The files read_png is given: lines 36-53 fix the layout of a file *)

\* a chunk whose declared length is the length of its payload
ChunkOf(ctype, data, crc) ==
    [length |-> Len(data), type |-> ctype, data |-> data, crc |-> crc]

\* the bytes of one chunk: length, type, payload, checksum (lines 44-50)
ChunkBytes(c) == PackU32(c.length) \o c.type \o c.data \o c.crc

RECURSIVE ChunksBytes(_)
ChunksBytes(cs) ==
    IF cs = <<>> THEN <<>> ELSE ChunkBytes(Head(cs)) \o ChunksBytes(Tail(cs))

FileBytes(l) == l.prefix \o ChunksBytes(l.chunks) \o l.tail

\* struct.pack(">IIBBBBB", ...), the payload of an IHDR chunk
IhdrPayload(f) ==
    PackU32(f.width) \o PackU32(f.height) \o
    <<f.bit_depth, f.color_type, f.comp, f.filt, f.interlace>>

Fields(w, h, bd, ct, cm, fm, il) ==
    [width |-> w, height |-> h, bit_depth |-> bd, color_type |-> ct,
     comp |-> cm, filt |-> fm, interlace |-> il]

\* checksum bytes of the chunks of the files: read_png never looks at them
ZeroCrc == <<0, 0, 0, 0>>
OtherCrc == <<222, 173, 190, 239>>

\* the scanline bytes of the test rows: n bytes that differ from each other
RowData(n, seed) == [k \in 1..n |-> (seed + 53 * k) % 256]

\* a 1 x 1 RGBA header, a 2 x 1 RGB header, one stream of 7 bytes that
\* serves both (a filter byte and 6 bytes), and the terminator
IhdrA == ChunkOf(IHDR, IhdrPayload(Fields(1, 1, 8, 6, 0, 0, 0)), ZeroCrc)
IhdrB == ChunkOf(IHDR, IhdrPayload(Fields(2, 1, 8, 2, 0, 0, 0)), ZeroCrc)
StreamB == <<0>> \o RowData(6, 200)
IdatB == ChunkOf(IDAT, zlib_compress(StreamB), ZeroCrc)
Iend == ChunkOf(IEND, <<>>, ZeroCrc)

ChunkAlphabet == { IhdrA, IhdrB, IdatB, Iend }

\* every sequence of at most MaxChunks chunks of the alphabet
ChunkSequences ==
    UNION { [1..n -> ChunkAlphabet] : n \in 0..MaxChunks }

WholeFile(cs) == [prefix |-> PNG_SIGNATURE, chunks |-> cs, tail |-> <<>>]

\* files of whole chunks after a good signature
StructuredFiles == { WholeFile(cs) : cs \in ChunkSequences }

\* files whose first 8 bytes are not the signature: a wrong byte, a missing
\* byte, an empty file
BadSignatures ==
    { [PNG_SIGNATURE EXCEPT ![8] = 13], SubSeq(PNG_SIGNATURE, 1, 7), <<>> }

BadSignatureFiles ==
    { [prefix |-> sig, chunks |-> cs, tail |-> <<>>] :
        sig \in BadSignatures, cs \in { <<>>, <<IhdrB, IdatB, Iend>> } }

\* files that end inside a chunk: fewer than 8 bytes after the last whole
\* chunk, or a last chunk whose payload or checksum is cut short
CutChunks(c) ==
    { [c EXCEPT !.data = SubSeq(c.data, 1, n), !.crc = <<>>] : n \in 0..(Len(c.data) - 1) }
        \cup { [c EXCEPT !.crc = SubSeq(c.crc, 1, n)] : n \in 0..3 }

CutFiles ==
    { [prefix |-> PNG_SIGNATURE, chunks |-> cs, tail |-> SubSeq(ChunkBytes(c), 1, n)] :
        cs \in { <<>>, <<IhdrB>>, <<IhdrB, IdatB>> }, c \in { IhdrB, Iend }, n \in {1, 7} }
    \cup
    { [prefix |-> PNG_SIGNATURE, chunks |-> Append(cs, c), tail |-> <<>>] :
        cs \in { <<>>, <<IhdrB>> },
        c \in CutChunks(IhdrB) \cup CutChunks(IdatB) \cup CutChunks(Iend) }

\* files of one header, one IDAT chunk and the terminator, the header
\* fields drawn from supported and unsupported values; the image is 1 x 1
HeaderFields ==
    { Fields(1, 1, bd, ct, cm, fm, il) :
        bd \in {1, 8, 16}, ct \in {0, 2, 3, 4, 6},
        cm \in {0, 1}, fm \in {0, 1}, il \in {0, 1} }

HeaderFiles ==
    { WholeFile(<<ChunkOf(IHDR, IhdrPayload(f), ZeroCrc), IdatB, Iend>>) :
        f \in HeaderFields }

\* filter-type bytes of the rows: the five filters and two values that are none
FilterBytes == {0, 1, 2, 3, 4, 5, 255}

\* a scanline stream of h rows of n bytes, row r led by the filter byte fs[r]
RECURSIVE StreamOf(_, _, _)
StreamOf(h, n, fs) ==
    IF h = 0 THEN <<>>
    ELSE StreamOf(h - 1, n, fs) \o <<fs[h]>> \o RowData(n, 200 + 17 * h)

\* the streams for an image of w x h pixels of bpp bytes: every choice of
\* filter bytes; the whole stream, the stream one byte short, one byte long,
\* and no stream at all
StreamsFor(w, h, bpp) ==
    UNION { { SubSeq(StreamOf(h, w * bpp, fs) \o <<7>>, 1, n) :
                n \in {0, h * (1 + w * bpp) - 1, h * (1 + w * bpp), h * (1 + w * bpp) + 1}
                        \cap (0..(h * (1 + w * bpp) + 1)) } :
            fs \in [1..h -> FilterBytes] }

\* the arguments of _unfilter_scanlines: [raw, width, height, bpp]
UnfilterInputs ==
    UNION { { [raw |-> st, width |-> d[1], height |-> d[2], bpp |-> d[3]] :
                st \in StreamsFor(d[1], d[2], d[3]) } :
            d \in (0..StreamSide) \X (0..StreamSide) \X {3, 4} }

\* files of one header of a supported kind, one IDAT chunk holding such a
\* stream, and the terminator
FilterFiles ==
    { WholeFile(<<ChunkOf(IHDR,
                          IhdrPayload(Fields(u.width, u.height, 8,
                                             IF u.bpp = 3 THEN 2 ELSE 6, 0, 0, 0)),
                          ZeroCrc),
                  ChunkOf(IDAT, zlib_compress(u.raw), ZeroCrc),
                  Iend>>) :
        u \in { v \in UnfilterInputs : v.width + v.height <= StreamSide + 1 } }

----------------------------------------------------------------------------
(* read_png step by step, lines 112-162, with _unfilter_scanlines inlined *)

\* struct.unpack(">IIBBBBB", ihdr), line 129, of a payload of 13 bytes
UnpackIhdr(payload) ==
    [width      |-> UnpackU32(SubSeq(payload, 1, 4)),
     height     |-> UnpackU32(SubSeq(payload, 5, 8)),
     bit_depth  |-> payload[9],
     color_type |-> payload[10],
     comp       |-> payload[11],
     filt       |-> payload[12],
     interlace  |-> payload[13]]

\* mutant of BppOf: an indexed-palette image is read as three bytes a pixel
BppOfIndexed(color_type) ==
    IF color_type = 2 \/ color_type = 3 THEN 3 ELSE IF color_type = 6 THEN 4 ELSE 0

\* lines 140-145: bytes per pixel of the colour type, 0 where line 145 raises
BppOf(color_type) ==
    IF color_type = 2 THEN 3 ELSE IF color_type = 6 THEN 4 ELSE 0

\* an exception leaves read_png
Raise(message, detail) ==
    /\ decoded' = Raised(message, detail)
    /\ pc' = "raised"

\* lines 113-127: the file is read, its chunks walked, IHDR and IDAT kept
ReadChunks ==
    /\ pc = "read"
    /\ IF ~StartsWithSignature(file)
       THEN /\ Raise("ValueError: Not a PNG (bad signature)", <<>>)
            /\ UNCHANGED <<r_ihdr, r_idat>>
       ELSE LET got == Collect(_read_chunks(file), 1, NoIhdr, <<>>)
            IN  /\ r_ihdr' = got.ihdr
                /\ r_idat' = got.idat
                /\ IF got.ihdr = NoIhdr
                   THEN Raise("ValueError: PNG missing IHDR", <<>>)
                   ELSE pc' = "header" /\ UNCHANGED decoded
    /\ UNCHANGED <<args, locals, outcome, history, twice, file, pair,
                   r_fields, r_bpp, r_raw, r_out, r_y>>

\* lines 129-145: the header is unpacked and validated
CheckHeader ==
    /\ pc = "header"
    /\ IF Len(r_ihdr) # 13
       THEN /\ Raise("struct.error", <<>>)
            /\ UNCHANGED <<r_fields, r_bpp>>
       ELSE LET f == UnpackIhdr(r_ihdr)
            IN  /\ r_fields' = f
                /\ IF f.comp # 0 \/ f.filt # 0
                   THEN /\ Raise("ValueError: Unsupported PNG compression/filter method",
                                 <<>>)
                        /\ UNCHANGED r_bpp
                   ELSE IF f.interlace # 0
                   THEN /\ Raise("ValueError: Interlaced PNG not supported", <<>>)
                        /\ UNCHANGED r_bpp
                   ELSE IF f.bit_depth # 8
                   THEN /\ Raise("ValueError: Only 8-bit PNG supported", <<>>)
                        /\ UNCHANGED r_bpp
                   ELSE IF BppOf(f.color_type) # 0
                   THEN /\ r_bpp' = BppOf(f.color_type)
                        /\ pc' = "inflate"
                        /\ UNCHANGED decoded
                   ELSE /\ Raise("ValueError: Unsupported PNG color type",
                                 [color_type |-> f.color_type])
                        /\ UNCHANGED r_bpp
    /\ UNCHANGED <<args, locals, outcome, history, twice, file, pair,
                   r_ihdr, r_idat, r_raw, r_out, r_y>>

\* line 147: raw = zlib.decompress(b"".join(idat_parts))
Inflate ==
    /\ pc = "inflate"
    /\ LET z == zlib_decompress(r_idat)
       IN  IF z.ok
           THEN r_raw' = z.data /\ pc' = "unfilter" /\ UNCHANGED decoded
           ELSE Raise("zlib.error", <<>>) /\ UNCHANGED r_raw
    /\ UNCHANGED <<args, locals, outcome, history, twice, file, pair,
                   r_ihdr, r_idat, r_fields, r_bpp, r_out, r_y>>

\* lines 76-82: the length check of _unfilter_scanlines and the allocation of out
UnfilterEnter ==
    /\ pc = "unfilter"
    /\ LET row_bytes == r_fields.width * r_bpp
           stride    == 1 + row_bytes
           expected  == r_fields.height * stride
       IN  IF TooSmall(Len(r_raw), expected)
           THEN /\ Raise("ValueError: IDAT too small",
                         [got |-> Len(r_raw), expected |-> expected])
                /\ UNCHANGED <<r_out, r_y>>
           ELSE /\ r_out' = Zeros(r_fields.height * row_bytes)
                /\ r_y' = 0
                /\ pc' = "rows"
                /\ UNCHANGED decoded
    /\ UNCHANGED <<args, locals, outcome, history, twice, file, pair,
                   r_ihdr, r_idat, r_fields, r_bpp, r_raw>>

\* lines 83-108: one row of the loop
UnfilterRowStep ==
    /\ pc = "rows"
    /\ r_y < r_fields.height
    /\ LET row_bytes == r_fields.width * r_bpp
           row       == UnfilterOneRow(r_out, r_raw, r_y, row_bytes, r_bpp)
       IN  IF row.ok
           THEN /\ r_out' = row.out
                /\ r_y' = r_y + 1
                /\ UNCHANGED <<pc, decoded>>
           ELSE /\ Raise("ValueError: Unsupported PNG filter", [filt |-> row.out[1]])
                /\ UNCHANGED <<r_out, r_y>>
    /\ UNCHANGED <<args, locals, outcome, history, twice, file, pair,
                   r_ihdr, r_idat, r_fields, r_bpp, r_raw>>

\* line 109: the loop is over and bytes(out) goes back to line 148
UnfilterReturn ==
    /\ pc = "rows"
    /\ r_y >= r_fields.height
    /\ pc' = "expand"
    /\ UNCHANGED <<args, locals, outcome, history, twice, codec>>

\* lines 150-162: the colour expansion and the return of the image
ReturnImage ==
    /\ pc = "expand"
    /\ decoded' = Returned([width  |-> r_fields.width,
                            height |-> r_fields.height,
                            rgba   |-> IF r_bpp = 4 THEN r_out
                                       ELSE ExpandRgb(r_out,
                                                      r_fields.width * r_fields.height)])
    /\ pc' = "read_done"
    /\ UNCHANGED <<args, locals, outcome, history, twice, file, pair, reader>>

\* a second file is read after the first: a new call of read_png
ReadOther ==
    /\ pc \in {"read_done", "raised"}
    /\ run = 1
    /\ other_layout # NoOther
    /\ first_read' = decoded
    /\ UNCHANGED unfiltered
    /\ layout' = other_layout
    /\ other_layout' = layout
    /\ file' = FileBytes(other_layout)
    /\ decoded' = NotRead
    /\ r_ihdr' = NoIhdr
    /\ r_idat' = <<>>
    /\ r_fields' = NoFields
    /\ r_bpp' = 0
    /\ r_raw' = <<>>
    /\ r_out' = <<>>
    /\ r_y' = 0
    /\ run' = 2
    /\ pc' = "read"
    /\ UNCHANGED <<args, locals, outcome, history, first>>

\* the files read alone
SingleFiles ==
    StructuredFiles \cup BadSignatureFiles \cup CutFiles \cup HeaderFiles \cup FilterFiles

\* the files a second file is derived from: one chunk fewer than MaxChunks
PairBases ==
    { WholeFile(cs) : cs \in UNION { [1..n -> ChunkAlphabet] : n \in 0..(MaxChunks - 1) } }

\* the chunks cs with chunk c put in after the first p of them
InsertAt(cs, p, c) == SubSeq(cs, 1, p) \o <<c>> \o SubSeq(cs, p + 1, Len(cs))

\* chunk k of cs, an IDAT chunk, as two IDAT chunks: the first n bytes of
\* its payload, then the rest
SplitAt(cs, k, n) ==
    SubSeq(cs, 1, k - 1)
        \o <<ChunkOf(IDAT, SubSeq(cs[k].data, 1, n), cs[k].crc),
              ChunkOf(IDAT, SubSeq(cs[k].data, n + 1, Len(cs[k].data)), cs[k].crc)>>
        \o SubSeq(cs, k + 1, Len(cs))

\* pairs of files: one IDAT chunk against the same payload in two chunks
SplitPairs ==
    UNION { { <<l, [l EXCEPT !.chunks = SplitAt(l.chunks, k, n)]>> :
                k \in { j \in 1..Len(l.chunks) : l.chunks[j].type = IDAT },
                n \in {0, 2, 9} } :
            l \in PairBases }

\* chunks of types read_png does not know: tEXt with a short payload, and
\* zTXt whose payload spells a whole IHDR chunk
TextChunk == ChunkOf(<<116, 69, 88, 116>>, <<1, 2, 3>>, ZeroCrc)
TrapChunk == ChunkOf(<<122, 84, 88, 116>>, ChunkBytes(IhdrA), OtherCrc)

\* the positions before the first IEND chunk of cs, from 0 (in front)
RECURSIVE BeforeTerminator(_, _)
BeforeTerminator(cs, p) ==
    IF p >= Len(cs) \/ cs[p + 1].type = IEND THEN {p}
    ELSE {p} \cup BeforeTerminator(cs, p + 1)

\* pairs of files that differ by one unknown chunk before the terminator:
\* there or not there, or there with another type and payload
AncillaryPairs ==
    UNION { { <<l, [l EXCEPT !.chunks = InsertAt(l.chunks, p, TextChunk)]>> :
                p \in BeforeTerminator(l.chunks, 0) }
            \cup
            { <<[l EXCEPT !.chunks = InsertAt(l.chunks, p, TextChunk)],
                [l EXCEPT !.chunks = InsertAt(l.chunks, p, TrapChunk)]>> :
                p \in BeforeTerminator(l.chunks, 0) } :
            l \in PairBases }

\* the chunk with the checksum write_png_rgba would give it (lines 183-184)
WithCrc(c) == [c EXCEPT !.crc = Crc32Bytes(c.type \o c.data)]

\* a file whose checksums are all right
CheckedFile == WholeFile(<<WithCrc(IhdrB), WithCrc(IdatB), WithCrc(Iend)>>)

\* pairs of files that differ in checksum bytes only: in one chunk, in all
\* chunks, and the file of right checksums against wrong ones
ChecksumPairs ==
    UNION { { <<l, [l EXCEPT !.chunks[k].crc = OtherCrc]>> : k \in 1..Len(l.chunks) }
            \cup
            { <<l, [l EXCEPT !.chunks =
                        [k \in 1..Len(l.chunks) |-> [l.chunks[k] EXCEPT !.crc = OtherCrc]]]>> } :
            l \in PairBases \ {WholeFile(<<>>)} }
    \cup { <<CheckedFile, WholeFile(<<IhdrB, IdatB, Iend>>)>>,
            <<CheckedFile, [CheckedFile EXCEPT !.chunks[2].crc[4] = 0]>> }

ReadInputs ==
    { <<l, NoOther>> : l \in SingleFiles }
        \cup SplitPairs \cup AncillaryPairs \cup ChecksumPairs

\* background_to_alpha_floodfill is not running
FillIdle ==
    /\ img = NoImage
    /\ tolerance = 28
    /\ max_seed_colors = 2
    /\ rgba = <<>>
    /\ rgba_ref = "none"
    /\ border_colors = <<>>
    /\ seeds = <<>>
    /\ visited = <<>>
    /\ qx = <<>>
    /\ qy = <<>>
    /\ x = 0
    /\ y = 0
    /\ result = NoImage
    /\ result_ref = "none"
    /\ error = ""
    /\ pushed = <<>>
    /\ evaluated = <<>>
    /\ cleared = {}
    /\ run = 1
    /\ first = NoRun

InitRead ==
    /\ \E inp \in ReadInputs :
          /\ layout = inp[1]
          /\ other_layout = inp[2]
          /\ file = FileBytes(inp[1])
    /\ pc = "read"
    /\ decoded = NotRead
    /\ first_read = NotRead
    /\ unfiltered = <<>>
    /\ ReaderAtCall
    /\ FillIdle

NextRead ==
    \/ ReadChunks
    \/ CheckHeader
    \/ Inflate
    \/ UnfilterEnter
    \/ UnfilterRowStep
    \/ UnfilterReturn
    \/ ReturnImage
    \/ ReadOther

SpecRead == InitRead /\ [][NextRead]_vars

----------------------------------------------------------------------------
(* read_png, then background_to_alpha_floodfill on the image it returned *)

\* files of a supported header and a stream of rows of filter type 0 or 4,
\* of the expected length or one byte longer
PipelineFiles ==
    UNION { { WholeFile(<<ChunkOf(IHDR,
                                  IhdrPayload(Fields(d[1], d[2], 8,
                                                     IF d[3] = 3 THEN 2 ELSE 6, 0, 0, 0)),
                                  ZeroCrc),
                          ChunkOf(IDAT, zlib_compress(StreamOf(d[2], d[1] * d[3], fs) \o more),
                                  ZeroCrc),
                          Iend>>) :
                fs \in [1..d[2] -> {0, 4}], more \in {<<>>, <<7>>} } :
            d \in (0..StreamSide) \X (0..StreamSide) \X {3, 4} }

InitPipeline ==
    /\ \E l \in PipelineFiles \cup HeaderFiles :
          /\ layout = l
          /\ file = FileBytes(l)
    /\ other_layout = NoOther
    /\ pc = "read"
    /\ decoded = NotRead
    /\ first_read = NotRead
    /\ unfiltered = <<>>
    /\ ReaderAtCall
    /\ FillIdle

\* the image read_png returned is passed to background_to_alpha_floodfill
\* with the default tolerance and max_seed_colors (lines 222-226)
CallFill ==
    /\ pc = "read_done"
    /\ img' = decoded.image
    /\ pc' = "call"
    /\ UNCHANGED <<tolerance, max_seed_colors, locals, outcome, history, twice, codec>>

NextPipeline ==
    \/ ReadChunks
    \/ CheckHeader
    \/ Inflate
    \/ UnfilterEnter
    \/ UnfilterRowStep
    \/ UnfilterReturn
    \/ ReturnImage
    \/ CallFill
    \/ SampleRaises
    \/ ReturnInput
    \/ Enter
    \/ SeedRow
    \/ SeedRowsDone
    \/ SeedCol
    \/ SeedColsDone
    \/ Pop
    \/ Return

SpecPipeline == InitPipeline /\ [][NextPipeline]_vars

----------------------------------------------------------------------------
(* _unfilter_scanlines called on its own, lines 68-109 *)

InitUnfilter ==
    /\ \E u \in UnfilterInputs :
          /\ r_raw = u.raw
          /\ r_fields = [NoFields EXCEPT !.width = u.width, !.height = u.height]
          /\ r_bpp = u.bpp
    /\ pc = "unfilter"
    /\ r_ihdr = NoIhdr
    /\ r_idat = <<>>
    /\ r_out = <<>>
    /\ r_y = 0
    /\ file = <<>>
    /\ decoded = NotRead
    /\ NoLayout
    /\ FillIdle

NextUnfilter ==
    \/ UnfilterEnter
    \/ UnfilterRowStep
    \/ UnfilterReturn

SpecUnfilter == InitUnfilter /\ [][NextUnfilter]_vars

----------------------------------------------------------------------------
(* Two calls on the same arguments *)

\* the caller keeps what the first call returned and calls again: the second
\* call starts in a new frame, with the same img, tolerance, max_seed_colors
CallAgain ==
    /\ pc = "returned"
    /\ run = 1
    /\ first' = [result |-> result, seeds |-> seeds, cleared |-> cleared]
    /\ run' = 2
    /\ pc' = "call"
    /\ rgba' = <<>>
    /\ rgba_ref' = "none"
    /\ border_colors' = <<>>
    /\ seeds' = <<>>
    /\ visited' = <<>>
    /\ qx' = <<>>
    /\ qy' = <<>>
    /\ x' = 0
    /\ y' = 0
    /\ result' = NoImage
    /\ result_ref' = "none"
    /\ error' = ""
    /\ pushed' = <<>>
    /\ evaluated' = <<>>
    /\ cleared' = {}
    /\ UNCHANGED <<args, codec>>

NextTwice ==
    \/ Next
    \/ CallAgain

SpecTwice == Init /\ [][NextTwice]_vars

----------------------------------------------------------------------------
(* A call on the image a first call returned *)

\* the caller passes the image the first call returned to a second call,
\* with the same tolerance and max_seed_colors
CallOnResult ==
    /\ pc = "returned"
    /\ run = 1
    /\ first' = [result |-> result, seeds |-> seeds, cleared |-> cleared]
    /\ run' = 2
    /\ img' = result
    /\ pc' = "call"
    /\ rgba' = <<>>
    /\ rgba_ref' = "none"
    /\ border_colors' = <<>>
    /\ seeds' = <<>>
    /\ visited' = <<>>
    /\ qx' = <<>>
    /\ qy' = <<>>
    /\ x' = 0
    /\ y' = 0
    /\ result' = NoImage
    /\ result_ref' = "none"
    /\ error' = ""
    /\ pushed' = <<>>
    /\ evaluated' = <<>>
    /\ cleared' = {}
    /\ UNCHANGED <<tolerance, max_seed_colors, codec>>

NextOnResult ==
    \/ Next
    \/ CallOnResult

SpecOnResult == Init /\ [][NextOnResult]_vars

----------------------------------------------------------------------------
(* The sampling and the ranking of lines 233-249 on images of several blocks *)

\* widths and heights: none, one and two pixels, and a whole number of
\* sampling steps with and without one pixel more
SampleSides ==
    {0, 1, 2} \cup UNION { {SampleStep * k, SampleStep * k + 1} : k \in 1..SampleBlocks }

\* the colours of the pixels: neighbours in a row or a column differ
SamplePalette == <<<<10, 20, 30, 255>>, <<38, 20, 30, 200>>, <<38, 21, 30, 0>>>>

\* the image of w x h pixels whose pixel (col, row) has colour col + 2 * row + shift
SampleImage(w, h, shift) ==
    [width  |-> w,
     height |-> h,
     rgba   |-> [k \in 1..(4 * w * h) |->
                    LET p == (k - 1) \div 4
                    IN  SamplePalette[(((p % w) + 2 * (p \div w) + shift) % 3) + 1][((k - 1) % 4) + 1]]]

InitSample ==
    /\ \E w \in SampleSides, h \in SampleSides, shift \in 0..2 : img = SampleImage(w, h, shift)
    /\ tolerance = 28
    /\ max_seed_colors \in 0..MaxSeedColors
    /\ AtCall
    /\ run = 1
    /\ first = NoRun
    /\ file = <<>>
    /\ decoded = NotRead
    /\ ReaderAtCall
    /\ NoLayout

NextSample ==
    \/ SampleRaises
    \/ ReturnInput
    \/ Enter

SpecSample == InitSample /\ [][NextSample]_vars

----------------------------------------------------------------------------
(* The loop of lines 267-286 with the worklist entries taken in any order *)

InitAnyOrder ==
    /\ img \in OrderImages
    /\ tolerance = 0
    /\ max_seed_colors \in {0, MaxSeedColors}
    /\ AtCall
    /\ run = 1
    /\ first = NoRun
    /\ file = <<>>
    /\ decoded = NotRead
    /\ ReaderAtCall
    /\ NoLayout

\* the worklist positions an iteration may take: OrderChoices positions
\* spread from the oldest entry to the newest, list.pop()'s among them
PopChoices(q) ==
    { 1 + ((Len(q) - 1) * j) \div (OrderChoices - 1) : j \in 0..(OrderChoices - 1) }

\* one iteration of the loop of lines 267-286 on any of these entries
PopAny == \E k \in PopChoices(qx) : PopAt(k)

NextAnyOrder ==
    \/ SampleRaises
    \/ ReturnInput
    \/ Enter
    \/ SeedRow
    \/ SeedRowsDone
    \/ SeedCol
    \/ SeedColsDone
    \/ PopAny
    \/ Return

\* the call runs on: a step is taken whenever one is possible
SpecAnyOrder == InitAnyOrder /\ [][NextAnyOrder]_vars /\ WF_vars(NextAnyOrder)

----------------------------------------------------------------------------
(* The pixel grid of the argument image, for stating the properties *)

PixelCount == img.width * img.height
PixelIds   == 0..(PixelCount - 1)
ColumnOf(p) == p % img.width
RowOf(p)    == p \div img.width

RgbAt(buf, p)   == <<buf[4 * p + 1], buf[4 * p + 2], buf[4 * p + 3]>>
AlphaAt(buf, p) == buf[4 * p + 4]

IsEdge(p) ==
    \/ ColumnOf(p) = 0
    \/ ColumnOf(p) = img.width - 1
    \/ RowOf(p) = 0
    \/ RowOf(p) = img.height - 1

\* the up, down, left and right neighbours of p inside the grid
Neighbours4(p) ==
    {q \in {p - 1, p + 1} : q \in PixelIds /\ RowOf(q) = RowOf(p)}
        \cup {q \in {p - img.width, p + img.width} : q \in PixelIds}

\* pixels whose RGB satisfies the background predicate of this call
Background == {p \in PixelIds : is_bg(RgbAt(img.rgba, p), seeds, tolerance)}

RECURSIVE Grow(_, _, _)
Grow(done, frontier, within) ==
    IF frontier = {} THEN done
    ELSE LET new == (UNION {Neighbours4(p) : p \in frontier} \cap within) \ done
         IN  Grow(done \cup new, new, within)

\* background pixels joined to an edge pixel by a 4-connected background path
BorderConnected ==
    LET start == {p \in Background : IsEdge(p)}
    IN  Grow(start, start, Background)

Allocated == pc \in {"seed_rows", "seed_cols", "fill"} \/ (pc = "returned" /\ seeds # <<>>)

----------------------------------------------------------------------------
\* C2: flood-fill soundness.  In every state of a call, every pixel whose
\* alpha the fill has set to 0 satisfies the background predicate and is
\* joined to an edge pixel by a 4-connected path of pixels satisfying it;
\* every pixel not so joined (an enclosed or only diagonally touching region
\* of background colour included) still has its original alpha in the
\* working buffer and in the result; and an iteration whose pixel fails the
\* predicate pushes nothing and writes nothing.
C2_Sound ==
    Allocated =>
        LET joined == BorderConnected
        IN  /\ cleared \subseteq joined
            /\ \A p \in PixelIds \ joined : AlphaAt(rgba, p) = AlphaAt(img.rgba, p)
            /\ pc = "returned" =>
                  \A p \in PixelIds \ joined :
                      AlphaAt(result.rgba, p) = AlphaAt(img.rgba, p)

C2_NoSpread ==
    (/\ evaluated' # evaluated
     /\ ~is_bg(RgbAt(rgba, evaluated'[Len(evaluated')]), seeds, tolerance))
        => (pushed' = pushed /\ rgba' = rgba)

C2_FloodFillSound == [](C2_Sound) /\ [][C2_NoSpread]_vars

\* a finished call on a 3 x 3 image whose centre has the background colour,
\* touches the cleared corners only diagonally and kept its alpha
C2_Witness ==
    /\ pc = "returned"
    /\ img.width = 3 /\ img.height = 3
    /\ 4 \in Background
    /\ {0, 2, 6, 8} \subseteq cleared
    /\ {1, 3, 5, 7} \cap Background = {}
    /\ AlphaAt(result.rgba, 4) = AlphaAt(img.rgba, 4)
    /\ AlphaAt(result.rgba, 4) # 0

----------------------------------------------------------------------------
----------------------------------------------------------------------------
\* C4: frame of the fill.  The working buffer and the result have the
\* input's width, height and length, the R, G and B bytes of every pixel
\* are the input's, and so is the alpha byte of every pixel that was not
\* accepted by the background predicate.
SameButAlphaOf(buf, accepted) ==
    /\ Len(buf) = Len(img.rgba)
    /\ \A p \in PixelIds :
          /\ RgbAt(buf, p) = RgbAt(img.rgba, p)
          /\ p \notin accepted => AlphaAt(buf, p) = AlphaAt(img.rgba, p)

C4_OnlyAcceptedAlpha ==
    /\ Allocated => SameButAlphaOf(rgba, cleared)
    /\ pc = "returned" =>
          /\ result.width = img.width
          /\ result.height = img.height
          /\ SameButAlphaOf(result.rgba, cleared)

\* a finished call that accepted one pixel and rejected another whose alpha
\* is not 0
C4_Witness ==
    /\ pc = "returned"
    /\ cleared # {}
    /\ \E p \in PixelIds \ cleared : AlphaAt(result.rgba, p) # 0
    /\ \E p \in cleared : AlphaAt(img.rgba, p) # 0 /\ AlphaAt(result.rgba, p) = 0

----------------------------------------------------------------------------
C5_Returned ==
    /\ rgba_ref \in {"none", "new"}
    /\ pc = "returned" =>
          IF seeds = <<>>
          THEN result_ref = "img" /\ result = img
          ELSE result_ref = "new"

----------------------------------------------------------------------------
\* C6 as claimed: on an image of zero area the sampler reads nothing, no
\* seed is selected and the call returns the input without an error.
C6_ZeroAreaNoOp ==
    (img.width = 0 \/ img.height = 0) =>
        /\ pc # "raised"
        /\ error = ""
        /\ pc # "call" => (pc = "returned" /\ border_colors = <<>> /\ seeds = <<>>
                             /\ result = img)

----------------------------------------------------------------------------
\* C7: the tolerance boundary is inclusive.  Every pixel the loop has
\* evaluated was accepted exactly when, for some seed, the sum of the squared
\* differences of its R, G and B bytes to the seed is at most
\* tolerance * tolerance; the alpha byte is not part of the sum.
SquaredDistance(p, seed) ==
    LET dr == img.rgba[4 * p + 1] - seed[1]
        dg == img.rgba[4 * p + 2] - seed[2]
        db == img.rgba[4 * p + 3] - seed[3]
    IN  dr * dr + dg * dg + db * db

NearestSeed(p) ==
    CHOOSE d \in {SquaredDistance(p, seeds[k]) : k \in 1..Len(seeds)} :
        \A k \in 1..Len(seeds) : d <= SquaredDistance(p, seeds[k])

C7_InclusiveTolerance ==
    \A n \in 1..Len(evaluated) :
        LET p == evaluated[n]
        IN  /\ p \in cleared <=> NearestSeed(p) <= tolerance * tolerance
            /\ NearestSeed(p) = tolerance * tolerance => AlphaAt(rgba, p) = 0
            /\ NearestSeed(p) = tolerance * tolerance + 1 =>
                  AlphaAt(rgba, p) = AlphaAt(img.rgba, p)

\* with the default tolerance 28, a pixel at squared distance 784 was
\* accepted and a pixel at 785 was rejected
C7_Witness ==
    /\ tolerance = 28
    /\ \E n \in 1..Len(evaluated) :
          NearestSeed(evaluated[n]) = 784 /\ evaluated[n] \in cleared
    /\ \E n \in 1..Len(evaluated) :
          NearestSeed(evaluated[n]) = 785 /\ evaluated[n] \notin cleared

----------------------------------------------------------------------------
\* C8: seed selection.  The seed list holds min(max(K, 0), number of
\* distinct samples) distinct sampled colours, in descending order of their
\* number of occurrences among the samples, equal counts in order of first
\* occurrence; every sampled colour left out ranks after every seed in that
\* order.
Occurrences(c) == Cardinality({k \in 1..Len(border_colors) : border_colors[k] = c})

FirstSeen(c) ==
    CHOOSE k \in 1..Len(border_colors) :
        border_colors[k] = c /\ \A j \in 1..(k - 1) : border_colors[j] # c

Sampled == {border_colors[k] : k \in 1..Len(border_colors)}

RanksBefore(c, d) ==
    \/ Occurrences(c) > Occurrences(d)
    \/ Occurrences(c) = Occurrences(d) /\ FirstSeen(c) < FirstSeen(d)

C8_SeedSelection ==
    pc \notin {"call", "raised"} =>
        /\ Len(seeds) <= Max(max_seed_colors, 0)
        /\ Len(seeds) = Min(Max(max_seed_colors, 0), Cardinality(Sampled))
        /\ \A i \in 1..Len(seeds) : seeds[i] \in Sampled
        /\ \A i, j \in 1..Len(seeds) : i < j => RanksBefore(seeds[i], seeds[j])
        /\ \A c \in Sampled \ {seeds[i] : i \in 1..Len(seeds)} :
              \A i \in 1..Len(seeds) : RanksBefore(seeds[i], c)

\* two seeds of equal count, ranked by first occurrence, and a colour left
\* out that was seen before the second seed but less often
C8_Witness ==
    /\ pc = "fill"
    /\ Len(seeds) = 2
    /\ Occurrences(seeds[1]) = Occurrences(seeds[2])
    /\ \E c \in Sampled :
          /\ c # seeds[1] /\ c # seeds[2]
          /\ FirstSeen(c) < FirstSeen(seeds[2])
          /\ Occurrences(c) < Occurrences(seeds[2])

----------------------------------------------------------------------------
\* C9: each pixel is evaluated at most once.  No pixel index occurs twice
\* among the pushes of a call nor among its evaluations, the visited bitmap
\* marks exactly the pixels pushed so far, and the pushed pixels are the
\* evaluated ones together with the worklist's.
NoRepeat(s) == \A i, j \in 1..Len(s) : s[i] = s[j] => i = j

C9_EvaluatedOnce ==
    /\ NoRepeat(pushed)
    /\ NoRepeat(evaluated)
    /\ Allocated =>
          /\ Len(qx) = Len(qy)
          /\ Len(pushed) = Len(evaluated) + Len(qx)
          /\ {pushed[k] : k \in 1..Len(pushed)} =
                {evaluated[k] : k \in 1..Len(evaluated)}
                    \cup {qy[k] * img.width + qx[k] : k \in 1..Len(qx)}
          /\ \A p \in PixelIds :
                visited[p + 1] # 0 <=> \E k \in 1..Len(pushed) : pushed[k] = p

\* a finished call on an image with four distinct corners in which every
\* pixel was evaluated
C9_Witness ==
    /\ pc = "returned"
    /\ img.width >= 2 /\ img.height >= 2
    /\ Len(evaluated) = PixelCount
    /\ \E p \in PixelIds : ~IsEdge(p)

----------------------------------------------------------------------------
----------------------------------------------------------------------------
\* C1: round trip.  For an image whose buffer holds width * height * 4
\* bytes, read_png on the file write_png_rgba wrote raises nothing and
\* returns an image of the same width and height with the same bytes.
C1_RoundTrip ==
    (pc = "read_done" /\ Len(img.rgba) = img.width * img.height * 4) =>
        /\ decoded.error = ""
        /\ decoded.image.width = img.width
        /\ decoded.image.height = img.height
        /\ decoded.image.rgba = img.rgba

\* a 2 x 2 image with two different rows and a transparent pixel read back
C1_Witness ==
    /\ pc = "read_done"
    /\ img.width = 2 /\ img.height = 2
    /\ SubSeq(img.rgba, 1, 8) # SubSeq(img.rgba, 9, 16)
    /\ \E p \in PixelIds : AlphaAt(img.rgba, p) = 0
    /\ \E p \in PixelIds : AlphaAt(img.rgba, p) = 255
    /\ decoded.image.rgba = img.rgba

----------------------------------------------------------------------------
(* Claims about read_png *)

\* the kinds of error of the reader, by the exception read_png raises
FormatError ==
    { "ValueError: Not a PNG (bad signature)", "ValueError: PNG missing IHDR" }

UnsupportedFormat ==
    { "ValueError: Unsupported PNG compression/filter method",
      "ValueError: Interlaced PNG not supported",
      "ValueError: Only 8-bit PNG supported",
      "ValueError: Unsupported PNG color type" }

DecodeError ==
    { "ValueError: IDAT too small", "ValueError: Unsupported PNG filter", "zlib.error" }

\* the first 8 bytes of the file are the signature
GoodSignature == Len(file) >= 8 /\ SubSeq(file, 1, 8) = PNG_SIGNATURE

\* position of the first terminator among the chunks cs, Len(cs) + 1 if none
FirstIend(cs) ==
    IF \E k \in 1..Len(cs) : cs[k].type = IEND
    THEN CHOOSE k \in 1..Len(cs) :
            cs[k].type = IEND /\ \A j \in 1..(k - 1) : cs[j].type # IEND
    ELSE Len(cs) + 1

\* the chunks of a file up to its first terminator, or all of them
BeforeIend(cs) == SubSeq(cs, 1, FirstIend(cs) - 1)

\* positions of the header chunks before the terminator
HeaderPositions(cs) == { k \in 1..Len(BeforeIend(cs)) : cs[k].type = IHDR }

\* C11: read_png raises a FormatError and returns no image when the first 8
\* bytes of the file are not the signature, and when the chunk walk ends, at
\* the terminator or at the end of the input, with no header chunk seen.
C11_FormatError ==
    pc # "read" =>
        /\ ~GoodSignature =>
             /\ pc = "raised"
             /\ decoded.error = "ValueError: Not a PNG (bad signature)"
             /\ decoded.error \in FormatError
             /\ decoded.image = NoImage
        /\ (GoodSignature /\ HeaderPositions(layout.chunks) = {}) =>
             /\ pc = "raised"
             /\ decoded.error = "ValueError: PNG missing IHDR"
             /\ decoded.error \in FormatError
             /\ decoded.image = NoImage

\* a file with a good signature whose only header chunk follows the terminator
C11_Witness ==
    /\ pc = "raised"
    /\ GoodSignature
    /\ decoded.error = "ValueError: PNG missing IHDR"
    /\ \E k \in 1..Len(layout.chunks) :
          layout.chunks[k].type = IHDR /\ k > FirstIend(layout.chunks)

\* a header payload of 13 bytes with a field read_png does not support
UnsupportedHeader(h) ==
    /\ Len(h) = 13
    /\ \/ h[11] # 0
       \/ h[12] # 0
       \/ h[13] # 0
       \/ h[9] # 8
       \/ h[10] \notin {2, 6}

\* C12: a header with compression method # 0, filter method # 0, interlace
\* flag # 0, bit depth # 8 or a colour type other than 2 and 6 is rejected
\* with an UnsupportedFormat error: no image is ever returned, and nothing
\* has been inflated or reconstructed when the error is raised.
C12_UnsupportedRejected ==
    (r_ihdr # NoIhdr /\ UnsupportedHeader(r_ihdr)) =>
        /\ pc \in {"header", "raised"}
        /\ pc = "raised" => decoded.error \in UnsupportedFormat
        /\ decoded.image = NoImage
        /\ r_raw = <<>>
        /\ r_out = <<>>

\* an indexed-palette header (colour type 3), all other fields supported,
\* in front of a stream that inflates, has been rejected
C12_Witness ==
    /\ pc = "raised"
    /\ r_ihdr # NoIhdr
    /\ Len(r_ihdr) = 13
    /\ r_ihdr[10] = 3
    /\ r_ihdr[9] = 8 /\ r_ihdr[11] = 0 /\ r_ihdr[12] = 0 /\ r_ihdr[13] = 0
    /\ zlib_decompress(r_idat).ok
    /\ decoded.error = "ValueError: Unsupported PNG color type"

\* the header fields a rejection can be about, and the byte of each in the
\* header payload
FieldByte ==
    [bit_depth |-> 9, color_type |-> 10, comp |-> 11, filt |-> 12, interlace |-> 13]

\* C13 (as stated): every UnsupportedFormat error names the one offending
\* header field and carries the value found in it.
C13_NamesFieldAndValue ==
    (pc = "raised" /\ decoded.error \in UnsupportedFormat) =>
        \E field \in DOMAIN FieldByte :
            /\ DOMAIN decoded.detail = {field}
            /\ decoded.detail[field] = r_ihdr[FieldByte[field]]

\* C14 (as stated): the header read_png uses is the payload of the first
\* header chunk of the file.
C14_FirstHeaderUsed ==
    (r_ihdr # NoIhdr /\ HeaderPositions(layout.chunks) # {}) =>
        r_ihdr = layout.chunks[CHOOSE k \in HeaderPositions(layout.chunks) :
                                  \A j \in HeaderPositions(layout.chunks) : k <= j].data

\* the payloads of the IDAT chunks of cs, joined in their order
RECURSIVE JoinIdat(_)
JoinIdat(cs) ==
    IF cs = <<>> THEN <<>>
    ELSE (IF Head(cs).type = IDAT THEN Head(cs).data ELSE <<>>) \o JoinIdat(Tail(cs))

\* the types and payloads of cs with neighbouring IDAT chunks made one
RECURSIVE Merged(_)
Merged(cs) ==
    IF cs = <<>> THEN <<>>
    ELSE LET rest == Merged(Tail(cs))
             h    == [type |-> Head(cs).type, data |-> Head(cs).data]
         IN  IF h.type = IDAT /\ rest # <<>> /\ rest[1].type = IDAT
             THEN <<[type |-> IDAT, data |-> h.data \o rest[1].data]>> \o Tail(rest)
             ELSE <<h>> \o rest

\* two files that differ only in how IDAT payloads are cut into chunks
SameButSplit(l1, l2) ==
    /\ l1.prefix = l2.prefix
    /\ l1.tail = l2.tail
    /\ Merged(l1.chunks) = Merged(l2.chunks)

\* both files of a comparison have been read
BothRead == run = 2 /\ pc \in {"read_done", "raised"}

\* C15: the payload read_png inflates is the payloads of the IDAT chunks
\* before the first IEND chunk (or the end of the input), joined in their
\* order; no chunk after the terminator is interpreted, as IDAT or as header;
\* a payload split over several IDAT chunks decodes as in one chunk.
C15_IdatJoined ==
    /\ (pc # "read" /\ GoodSignature) =>
          /\ r_idat = JoinIdat(BeforeIend(layout.chunks))
          /\ \/ r_ihdr = NoIhdr /\ HeaderPositions(layout.chunks) = {}
             \/ \E k \in HeaderPositions(layout.chunks) : r_ihdr = layout.chunks[k].data
    /\ (BothRead /\ SameButSplit(other_layout, layout)) => decoded = first_read

\* a file whose IDAT payload is in two chunks of several bytes each has been
\* read after the file that holds it in one, and an image came back
C15_Witness ==
    /\ BothRead
    /\ pc = "read_done"
    /\ SameButSplit(other_layout, layout)
    /\ Len(layout.chunks) = Len(other_layout.chunks) + 1
    /\ \E k \in 1..(Len(layout.chunks) - 1) :
          /\ layout.chunks[k].type = IDAT /\ Len(layout.chunks[k].data) > 2
          /\ layout.chunks[k + 1].type = IDAT /\ Len(layout.chunks[k + 1].data) > 2
    /\ decoded = first_read
    /\ decoded.image # NoImage

\* the chunks of types read_png interprets
Known(cs) == SelectSeq(cs, LAMBDA c : c.type \in {IHDR, IDAT, IEND})

\* two files that differ only by chunks of other types before the terminator
SameButAncillary(l1, l2) ==
    /\ l1.prefix = l2.prefix
    /\ l1.tail = l2.tail
    /\ Known(BeforeIend(l1.chunks)) = Known(BeforeIend(l2.chunks))
    /\ SubSeq(l1.chunks, FirstIend(l1.chunks), Len(l1.chunks))
         = SubSeq(l2.chunks, FirstIend(l2.chunks), Len(l2.chunks))

\* C16: chunks that are not IHDR, IDAT or IEND are skipped: two files that
\* differ only by the presence, type or payload of such chunks before the
\* terminator raise the same error or decode to the same image.
C16_AncillarySkipped ==
    (BothRead /\ SameButAncillary(other_layout, layout)) => decoded = first_read

\* a file holding a chunk of unknown type whose payload spells an IHDR chunk
\* has been read after the file with a tEXt chunk in its place, and both
\* gave the same image
C16_Witness ==
    /\ BothRead
    /\ pc = "read_done"
    /\ SameButAncillary(other_layout, layout)
    /\ \E k \in 1..Len(layout.chunks) :
          /\ layout.chunks[k] = TrapChunk
          /\ other_layout.chunks[k] = TextChunk
          /\ k < FirstIend(layout.chunks)
    /\ decoded = first_read
    /\ decoded.image # NoImage

\* two files that differ in the checksum bytes of their chunks only
SameButCrc(l1, l2) ==
    /\ l1.prefix = l2.prefix
    /\ l1.tail = l2.tail
    /\ Len(l1.chunks) = Len(l2.chunks)
    /\ \A k \in 1..Len(l1.chunks) :
          /\ l1.chunks[k].length = l2.chunks[k].length
          /\ l1.chunks[k].type = l2.chunks[k].type
          /\ l1.chunks[k].data = l2.chunks[k].data
          /\ Len(l1.chunks[k].crc) = Len(l2.chunks[k].crc)

\* C17: the checksum bytes of a chunk are never compared: two files that
\* differ in checksum bytes only raise the same error or decode to the same
\* image, so a wrong checksum rejects no file.
C17_ChecksumIgnored ==
    (BothRead /\ SameButCrc(other_layout, layout)) => decoded = first_read

\* the file of right checksums and the same file with a wrong one both gave
\* the image
C17_Witness ==
    /\ BothRead
    /\ pc = "read_done"
    /\ other_layout = CheckedFile
    /\ layout # CheckedFile
    /\ SameButCrc(other_layout, layout)
    /\ decoded = first_read
    /\ decoded.image # NoImage

----------------------------------------------------------------------------
(* Claims about _unfilter_scanlines and the colour expansion *)

\* the arguments of the call of _unfilter_scanlines
RowBytes == r_fields.width * r_bpp
Expected == r_fields.height * (1 + RowBytes)

\* the rows of the stream that begin with a filter-type byte outside 0..4
BadFilterRows ==
    { r \in 0..(r_fields.height - 1) :
        /\ r * (1 + RowBytes) + 1 <= Len(r_raw)
        /\ r_raw[r * (1 + RowBytes) + 1] \notin 0..4 }

\* C18 (as stated): when a row of the stream begins with a filter-type byte
\* outside 0..4, _unfilter_scanlines raises a DecodeError and returns no
\* pixel data, rows of zero byte width included.
C18_BadFilterRejected ==
    (pc \in {"expand", "raised"} /\ BadFilterRows # {}) =>
        /\ pc = "raised"
        /\ decoded.error \in DecodeError

\* C19: a stream shorter than height * (1 + width * bpp) bytes is rejected
\* with a DecodeError that reports the expected and the actual byte count,
\* before a row is reconstructed; a stream of the expected length, or a
\* longer one, is not rejected by this test.
C19_ShortStreamRejected ==
    pc \in {"rows", "expand", "raised"} =>
        /\ Len(r_raw) < Expected =>
             /\ pc = "raised"
             /\ decoded.error = "ValueError: IDAT too small"
             /\ decoded.error \in DecodeError
             /\ decoded.detail = [got |-> Len(r_raw), expected |-> Expected]
             /\ r_out = <<>>
             /\ r_y = 0
        /\ Len(r_raw) >= Expected => decoded.error # "ValueError: IDAT too small"

\* a stream of two rows that lacks its last byte has been rejected
C19_Witness ==
    /\ pc = "raised"
    /\ r_fields.height = 2
    /\ RowBytes > 0
    /\ Len(r_raw) = Expected - 1
    /\ decoded.error = "ValueError: IDAT too small"
    /\ decoded.detail.got # decoded.detail.expected

\* C20: for a 3-channel input pixel i of the image returned is (R, G, B, 255)
\* with R, G, B bytes 3i, 3i + 1, 3i + 2 of the reconstructed pixel data; for
\* a 4-channel input the reconstructed bytes are the buffer of the image.
C20_ColourExpansion ==
    pc = "read_done" =>
        /\ decoded.image.width = r_fields.width
        /\ decoded.image.height = r_fields.height
        /\ r_bpp = 4 => decoded.image.rgba = r_out
        /\ r_bpp = 3 =>
             /\ Len(decoded.image.rgba) = 4 * r_fields.width * r_fields.height
             /\ \A i \in 0..(r_fields.width * r_fields.height - 1) :
                   /\ decoded.image.rgba[4 * i + 1] = r_out[3 * i + 1]
                   /\ decoded.image.rgba[4 * i + 2] = r_out[3 * i + 2]
                   /\ decoded.image.rgba[4 * i + 3] = r_out[3 * i + 3]
                   /\ decoded.image.rgba[4 * i + 4] = 255

\* a 3-channel image of two pixels whose six colour bytes all differ has
\* been returned
C20_Witness ==
    /\ pc = "read_done"
    /\ r_bpp = 3
    /\ r_fields.width * r_fields.height = 2
    /\ Cardinality({ r_out[k] : k \in 1..6 }) = 6
    /\ Len(decoded.image.rgba) = 8

----------------------------------------------------------------------------
(* Claims about the images returned *)

\* the buffer of an image holds width * height * 4 bytes, each in 0..255
ValidImage(image) ==
    /\ Len(image.rgba) = image.width * image.height * 4
    /\ \A k \in 1..Len(image.rgba) : image.rgba[k] \in 0..255

\* C21: image invariant.  The image read_png returns has a buffer of exactly
\* width * height * 4 bytes, each in 0..255, for 3-channel and 4-channel
\* files and when the inflated stream is longer than expected; the image
\* background_to_alpha_floodfill returns for such an image has one too.
C21_ImageInvariant ==
    /\ pc = "read_done" => ValidImage(decoded.image)
    /\ (pc = "returned" /\ ValidImage(img)) => ValidImage(result)

\* a 3-channel file of 2 x 2 pixels whose stream has a byte too many was
\* read, and the fill returned a new image with cleared pixels for it
C21_Witness ==
    /\ pc = "returned"
    /\ r_bpp = 3
    /\ r_fields.width = 2 /\ r_fields.height = 2
    /\ Len(r_raw) > r_fields.height * (1 + r_fields.width * r_bpp)
    /\ img = decoded.image
    /\ result_ref = "new"
    /\ cleared # {}
    /\ ValidImage(result)

----------------------------------------------------------------------------
(* Claims about the file written *)

\* v as four bytes, most significant first
BigEndian4(v) ==
    <<(v \div 16777216) % 256, (v \div 65536) % 256, (v \div 256) % 256, v % 256>>

\* the bytes of the file from offset lo up to offset hi, offsets from 0
FileSlice(lo, hi) == SubSeq(file, lo + 1, hi)

\* the length of the payload of the second chunk, if the file is a
\* signature, a chunk of 13 bytes, a second chunk and a chunk of 0 bytes
DataLength == Len(file) - 8 - (12 + 13) - 12 - 12

\* the payload of the second chunk of the file
DataPayload == FileSlice(41, 41 + DataLength)

\* C22: file layout.  The bytes write_png_rgba writes are the 8-byte
\* signature, one IHDR chunk carrying (width, height, 8, 6, 0, 0, 0), one
\* IDAT chunk and one IEND chunk with an empty payload, in that order and
\* with nothing else; the length field of each chunk is the length of its
\* payload.
C22_FileLayout ==
    pc # "write" =>
        /\ DataLength >= 0
        /\ FileSlice(0, 8) = <<137, 80, 78, 71, 13, 10, 26, 10>>
        /\ FileSlice(8, 12) = BigEndian4(13)
        /\ FileSlice(12, 16) = <<73, 72, 68, 82>>
        /\ FileSlice(16, 29) = BigEndian4(img.width) \o BigEndian4(img.height)
                                   \o <<8, 6, 0, 0, 0>>
        /\ FileSlice(33, 37) = BigEndian4(DataLength)
        /\ FileSlice(37, 41) = <<73, 68, 65, 84>>
        /\ zlib_decompress(DataPayload).ok
        /\ FileSlice(Len(file) - 12, Len(file) - 8) = BigEndian4(0)
        /\ FileSlice(Len(file) - 8, Len(file) - 4) = <<73, 69, 78, 68>>

\* an image of 2 x 2 pixels was written
C22_Witness ==
    /\ pc = "read"
    /\ img.width = 2 /\ img.height = 2
    /\ Len(file) > 8 + 25 + 12 + 12 + 16
    /\ FileSlice(16, 24) = <<0, 0, 0, 2, 0, 0, 0, 2>>

\* the scanline stream the file carries
Scanlines == zlib_decompress(DataPayload).data

\* C23: scanline stream.  The stream write_png_rgba compresses has
\* height * (1 + 4 * width) bytes; row y of it is a filter-type byte 0
\* followed by the 4 * width bytes of row y of the buffer, rows from the top
\* down.
C23_ScanlineStream ==
    pc # "write" =>
        LET stride == 1 + 4 * img.width
        IN  /\ Scanlines = _filter_none_rgba(img.rgba, img.width, img.height)
            /\ Len(Scanlines) = img.height * stride
            /\ \A row \in 0..(img.height - 1) :
                  /\ Scanlines[row * stride + 1] = 0
                  /\ SubSeq(Scanlines, row * stride + 2, (row + 1) * stride)
                       = SubSeq(img.rgba, row * 4 * img.width + 1,
                                (row + 1) * 4 * img.width)

\* an image of two rows that differ was written
C23_Witness ==
    /\ pc = "read"
    /\ img.width = 2 /\ img.height = 2
    /\ SubSeq(img.rgba, 1, 8) # SubSeq(img.rgba, 9, 16)
    /\ Len(Scanlines) = 18
    /\ Scanlines[10] = 0

----------------------------------------------------------------------------
(* Claims about the worklist *)

\* C24: worklist bound.  In every state of a call the worklist holds at most
\* as many entries as the image has pixels that satisfy the background
\* predicate.
C24_WorklistBounded ==
    Allocated => Len(qx) <= Cardinality(Background)

----------------------------------------------------------------------------
(* Claims about the reconstruction of the scanlines *)

\* of a, b and c the one nearest to a + b - c, a before b before c on a tie
PaethPredictor(a, b, c) ==
    LET estimate == a + b - c
        da == IF estimate >= a THEN estimate - a ELSE a - estimate
        db == IF estimate >= b THEN estimate - b ELSE b - estimate
        dc == IF estimate >= c THEN estimate - c ELSE c - estimate
    IN  CASE da <= db /\ da <= dc -> a
          [] ~(da <= db /\ da <= dc) /\ db <= dc -> b
          [] ~(da <= db /\ da <= dc) /\ ~(db <= dc) -> c

\* the predictor of filter type t from the bytes a (left), b (above) and
\* c (above left)
Predictor(t, a, b, c) ==
    CASE t = 0 -> 0
      [] t = 1 -> a
      [] t = 2 -> b
      [] t = 3 -> (a + b) \div 2
      [] t = 4 -> PaethPredictor(a, b, c)

\* the reference value of output byte k (from 0) of an image whose rows
\* have n bytes and whose pixels have bpp bytes, given the output bytes
\* before it: stream holds the filter-type byte and the filtered bytes
ReferenceByte(known, stream, n, bpp, k) ==
    LET row == k \div n
        col == k % n
        t   == stream[row * (1 + n) + 1]
        f   == stream[row * (1 + n) + 1 + col + 1]
        a   == IF col >= bpp THEN known[k - bpp + 1] ELSE 0
        b   == IF row > 0 THEN known[k - n + 1] ELSE 0
        c   == IF row > 0 /\ col >= bpp THEN known[k - n - bpp + 1] ELSE 0
    IN  (f + Predictor(t, a, b, c)) % 256

\* the first count output bytes of the reference reconstruction
RECURSIVE Reference(_, _, _, _)
Reference(stream, n, bpp, count) ==
    IF count = 0 THEN <<>>
    ELSE LET known == Reference(stream, n, bpp, count - 1)
         IN  Append(known, ReferenceByte(known, stream, n, bpp, count - 1))

\* C25: scanline reconstruction.  _unfilter_scanlines handles the rows from
\* the top down and its output is the reference reconstruction: byte x of a
\* row of filter type t is (f + P) mod 256 with P = 0, a, b, floor((a+b)/2)
\* or the Paeth predictor for t = 0..4, where a, b and c are the output bytes
\* one pixel to the left, above and above left, 0 where there is none.
C25_MatchesReference ==
    /\ pc = "rows" =>
          /\ SubSeq(r_out, 1, r_y * RowBytes) = Reference(r_raw, RowBytes, r_bpp, r_y * RowBytes)
          /\ \A k \in (r_y * RowBytes + 1)..Len(r_out) : r_out[k] = 0
    /\ pc = "expand" =>
          r_out = Reference(r_raw, RowBytes, r_bpp, r_fields.height * RowBytes)

\* two rows of two 3-byte pixels, the first filtered with Sub or Average and
\* the second with Paeth, were reconstructed
C25_Witness ==
    /\ pc = "expand"
    /\ r_fields.width = 2 /\ r_fields.height = 2 /\ r_bpp = 3
    /\ r_raw[1] \in {1, 3}
    /\ r_raw[8] = 4
    /\ r_out = Reference(r_raw, 6, 3, 12)
    /\ r_out # SubSeq(r_raw, 2, 7) \o SubSeq(r_raw, 9, 14)

----------------------------------------------------------------------------
(* _unfilter_scanlines on streams made with the standard filters *)

\* scanline bytes to filter: bytes that all differ, the largest byte, the
\* two extreme bytes in turn, and bytes that rise and fall
SourcePixels(n) ==
    { SubSeq(px, 1, n) : px \in { RowData(n, 200),
                                  [k \in 1..n |-> 255],
                                  [k \in 1..n |-> IF k % 2 = 0 THEN 0 ELSE 255],
                                  [k \in 1..n |-> (7 * k * k) % 256] } }

\* byte k (from 0) of the scanlines px filtered with type t: the byte less
\* the predictor of the unfiltered bytes to the left, above and above left
FilteredByte(px, t, n, bpp, k) ==
    LET row == k \div n
        col == k % n
        a   == IF col >= bpp THEN px[k - bpp + 1] ELSE 0
        b   == IF row > 0 THEN px[k - n + 1] ELSE 0
        c   == IF row > 0 /\ col >= bpp THEN px[k - n - bpp + 1] ELSE 0
    IN  (px[k + 1] + 256 - Predictor(t, a, b, c)) % 256

\* the stream of the first h rows of n bytes of px, row r filtered with
\* type fs[r]: the input lines 72-73 describe
RECURSIVE ForwardFilter(_, _, _, _, _)
ForwardFilter(px, h, n, bpp, fs) ==
    IF h = 0 THEN <<>>
    ELSE ForwardFilter(px, h - 1, n, bpp, fs) \o <<fs[h]>>
            \o SubSeq([col \in 1..n |-> FilteredByte(px, fs[h], n, bpp, (h - 1) * n + col - 1)],
                      1, n)

InitInverse ==
    /\ \E d \in (0..StreamSide) \X (0..StreamSide) \X {3, 4} :
          \E px \in SourcePixels(d[1] * d[2] * d[3]), fs \in [1..d[2] -> 0..4] :
              /\ unfiltered = px
              /\ r_raw = ForwardFilter(px, d[2], d[1] * d[3], d[3], fs)
              /\ r_fields = [NoFields EXCEPT !.width = d[1], !.height = d[2]]
              /\ r_bpp = d[3]
    /\ pc = "unfilter"
    /\ r_ihdr = NoIhdr
    /\ r_idat = <<>>
    /\ r_out = <<>>
    /\ r_y = 0
    /\ file = <<>>
    /\ decoded = NotRead
    /\ layout = NoFile
    /\ other_layout = NoOther
    /\ first_read = NotRead
    /\ FillIdle

SpecInverse == InitInverse /\ [][NextUnfilter]_vars

\* C26: inverse of the filters.  When the rows of a buffer of scanline bytes
\* are filtered with the standard filters, each row with a type of 0..4 of
\* its own, _unfilter_scanlines returns the bytes of the buffer, for 3 and
\* for 4 bytes per pixel.
C26_FilterInverse ==
    /\ pc # "raised"
    /\ pc = "rows" => SubSeq(r_out, 1, r_y * RowBytes) = SubSeq(unfiltered, 1, r_y * RowBytes)
    /\ pc = "expand" => r_out = unfiltered

\* two rows of two pixels, filtered with Average and with Paeth into bytes
\* that differ from them, came back
C26_Witness ==
    /\ pc = "expand"
    /\ r_fields.width = 2 /\ r_fields.height = 2
    /\ r_raw[1] = 3
    /\ r_raw[RowBytes + 2] = 4
    /\ SubSeq(r_raw, RowBytes + 3, 2 * RowBytes + 2) # SubSeq(unfiltered, RowBytes + 1, 2 * RowBytes)
    /\ r_out = unfiltered
    /\ \E k \in 1..Len(unfiltered) : unfiltered[k] # 255

----------------------------------------------------------------------------
(* Claims about the order of the worklist *)

\* the buffer of the argument with alpha 0 on the border-connected background
ClearedBuffer ==
    [k \in 1..Len(img.rgba) |->
        IF k % 4 = 0 /\ ((k \div 4) - 1) \in BorderConnected THEN 0 ELSE img.rgba[k]]

\* C27: order independence.  Whichever worklist entry an iteration takes,
\* the newest as list.pop() does, the oldest or any other, the call ends,
\* and the buffer it returns is the one fixed by the image, the tolerance
\* and the seeds.
C27_OrderIndependent ==
    /\ [](pc = "returned" /\ seeds # <<>>
            => result = [width |-> img.width, height |-> img.height, rgba |-> ClearedBuffer])
    /\ <>(pc \in {"returned", "raised"})

\* a call that took the oldest entry first and the newest entry second has
\* returned, with the centre pixel cleared and another pixel kept
C27_Witness ==
    /\ pc = "returned"
    /\ img.width = 3 /\ img.height = 3
    /\ Len(evaluated) = 9
    /\ evaluated[1] = pushed[1]
    /\ evaluated[2] = pushed[8]
    /\ 4 \in cleared
    /\ Cardinality(cleared) < 9
    /\ result.rgba = ClearedBuffer

----------------------------------------------------------------------------
(* Claims about repeated calls *)

\* C28: idempotence.  A call of background_to_alpha_floodfill on the image
\* an earlier call returned, with the same tolerance and max_seed_colors,
\* returns an image equal to it.
C28_Idempotent ==
    run = 2 =>
        /\ pc # "raised"
        /\ pc = "returned" =>
              /\ result.width = first.result.width
              /\ result.height = first.result.height
              /\ result.rgba = first.result.rgba

\* the second call has returned for an image of which the first call
\* cleared some pixels and kept others, and it went through the loop again
C28_Witness ==
    /\ run = 2
    /\ pc = "returned"
    /\ first.cleared # {}
    /\ cleared = first.cleared
    /\ Cardinality(cleared) < PixelCount
    /\ \E p \in cleared : AlphaAt(result.rgba, p) = 0
    /\ \E p \in PixelIds \ cleared : AlphaAt(result.rgba, p) # 0
    /\ result.rgba = first.result.rgba

----------------------------------------------------------------------------
(* Claims about termination *)

\* C29: termination.  On an image of width >= 1 and height >= 1 the call
\* returns: no pixel is pushed more than once, so the loop of line 267 runs
\* at most width * height times and the worklist runs empty.
C29_Terminates ==
    /\ [](/\ Len(pushed) <= PixelCount
          /\ Len(evaluated) <= PixelCount
          /\ Len(qx) + Len(evaluated) = Len(pushed))
    /\ (img.width >= 1 /\ img.height >= 1) => <>(pc = "returned")

\* a call on an image of 9 pixels has returned after 9 iterations of the loop
C29_Witness ==
    /\ pc = "returned"
    /\ img.width = 3 /\ img.height = 3
    /\ Len(evaluated) = 9
    /\ qx = <<>>
    /\ result_ref = "new"

----------------------------------------------------------------------------
(* Claims about the border samples *)

\* the least number of steps of d that cover n
CeilDiv(n, d) == (n + d - 1) \div d

\* the positions (x, y) of the claim's scan order for w x h pixels
ScanOrder(w, h) ==
    LET across == CeilDiv(w, 16)
        down   == CeilDiv(h, 16)
    IN  [k \in 1..(2 * across + 2 * down) |->
            IF k <= 2 * across
            THEN <<16 * ((k - 1) \div 2), IF k % 2 = 1 THEN 0 ELSE h - 1>>
            ELSE LET m == k - 2 * across
                 IN  <<IF m % 2 = 1 THEN 0 ELSE w - 1, 16 * ((m - 1) \div 2)>>]

\* the sampler has returned for an image with a pixel
SamplerReturned == pc \in {"seed_rows", "returned"} /\ img.width >= 1 /\ img.height >= 1

\* the samples are the colours at the positions of the scan order
SamplesInScanOrder ==
    LET scan == ScanOrder(img.width, img.height)
    IN  /\ Len(border_colors) = 2 * CeilDiv(img.width, 16) + 2 * CeilDiv(img.height, 16)
        /\ Len(border_colors) = Len(scan)
        /\ \A k \in 1..Len(scan) :
              border_colors[k] = RgbAt(img.rgba, scan[k][2] * img.width + scan[k][1])
        /\ \A k \in 1..Len(scan) :
              SamplePositions(img.width, img.height, SampleStep)[k] = scan[k]

\* how many of the samples are read at the top-left pixel
TopLeftSamples ==
    Cardinality({ k \in 1..Len(border_colors) :
                    SamplePositions(img.width, img.height, SampleStep)[k] = <<0, 0>> })

\* C30 (as stated): for width >= 1 and height >= 1 the sampler returns
\* 2 * ceil(width / 16) + 2 * ceil(height / 16) samples in the scan order
\* (x, 0), (x, height - 1) for x = 0, 16, ... then (0, y), (width - 1, y) for
\* y = 0, 16, ...; the top-left pixel always gives two of the samples, and
\* the pixel of a 1 x 1 image four.
C30_TopLeftTwice ==
    SamplerReturned =>
        /\ SamplesInScanOrder
        /\ TopLeftSamples = IF img.width = 1 /\ img.height = 1 THEN 4 ELSE 2

\* C30 (amended): the count and the scan order as stated; the top-left
\* pixel gives one sample for each edge scan that reads it: two, one more
\* when the image has one row (the bottom row is the top row), and one more
\* when it has one column.
C30_TopLeftPerEdge ==
    SamplerReturned =>
        /\ SamplesInScanOrder
        /\ TopLeftSamples = 2 + (IF img.height = 1 THEN 1 ELSE 0)
                              + (IF img.width = 1 THEN 1 ELSE 0)

\* an image of one column of 33 pixels was sampled at its ends and at three
\* rows, at its top-left pixel three times
C30_Witness ==
    /\ pc = "seed_rows"
    /\ img.width = 1 /\ img.height = 33
    /\ Len(border_colors) = 8
    /\ border_colors[2] = RgbAt(img.rgba, 32)
    /\ border_colors[5] = RgbAt(img.rgba, 16)
    /\ border_colors[5] # border_colors[1]
    /\ TopLeftSamples = 3

====
